---------------------------- MODULE Spec2Model ----------------------------
(***************************************************************************)
(* State machine of the component runtime of nikonov-alex/components.v2,   *)
(* latest revision (src/index.ts lines 290-674): class _Component.         *)
(*                                                                         *)
(* The host is single-threaded and run-to-completion.  A callback of the   *)
(* host (an event listener, connectedCallback, a MutationObserver          *)
(* callback, a timer task) runs until it returns; the only places where    *)
(* other code of the instance can run in the middle of it are the          *)
(* dispatchEvent calls of _maybeEmitEvents, whose listeners are foreign    *)
(* code that may synchronously dispatch an event the instance handles.     *)
(* The model therefore keeps the call stack of the instance explicitly     *)
(* and an action runs the code from one such point to the next.            *)
(***************************************************************************)
EXTENDS Integers, Sequences, FiniteSets, TLC

\* ------------------------------------------------------------------ bounds
\* States are the naturals 0..MaxState (the counter of the spec's scenario).
MaxState == 3
\* At most MaxCalls invocations of _changeState are followed in one behaviour.
MaxCalls == 3

\* ----------------------------------------------------------- construction
\* The arguments given to the constructor.  Handlers, predicates and
\* emitters are user code; the model fixes small concrete ones.
\* An event record is declared as a plain function ("plain") or as an object
\* { handler, channel } with channel "local" or "global".
\* spec 8, end-to-end scenario: events = {increment}, one record n >= 3.
CounterArgs ==
    [ name       |-> "counter",
      events     |-> [increment |-> "plain"],
      emit       |-> << [when |-> "geq3", emit |-> <<"reachedThree">>,
                         isArray |-> FALSE, channel |-> "absent"] >>,
      viewupdated |-> FALSE,
      domchange  |-> FALSE,
      redrawMode |-> "update",
      faulty     |-> FALSE,
      dommode    |-> "shadow",
      form       |-> FALSE,
      validate   |-> FALSE,
      props      |-> << >> ]

\* A richer instance: two local handlers and one global one, three emission
\* records (one with an emitter list), optionally the viewupdated hook and
\* the domchange trigger.
FullArgs(hook, watch) ==
    [ name       |-> "full",
      events     |-> [increment |-> "plain", focus |-> "local", popstate |-> "global"],
      emit       |-> << [when |-> "changed", emit |-> <<"change", "input">>,
                         isArray |-> TRUE, channel |-> "local"],
                        [when |-> "geq3", emit |-> <<"reachedThree">>,
                         isArray |-> FALSE, channel |-> "global"],
                        [when |-> "even", emit |-> <<"even">>,
                         isArray |-> FALSE, channel |-> "absent"] >>,
      viewupdated |-> hook,
      domchange  |-> watch,
      redrawMode |-> "update",
      faulty     |-> FALSE,
      dommode    |-> "shadow",
      form       |-> FALSE,
      validate   |-> FALSE,
      props      |-> << >> ]

\* An instance whose handlers exercise the router: a plain function under a
\* navigation event name, that name's sibling declared local, an ordinary
\* name declared global.  No emission records; redrawMode "replace".
RouterArgs ==
    [ name       |-> "router",
      events     |-> [hashchange |-> "plain", popstate |-> "local", focus |-> "global"],
      emit       |-> << >>,
      viewupdated |-> FALSE,
      domchange  |-> FALSE,
      redrawMode |-> "replace",
      faulty     |-> FALSE,
      dommode    |-> "shadow",
      form       |-> FALSE,
      validate   |-> FALSE,
      props      |-> << >> ]

\* A FormComponent: formValue and validate, a plain local handler, a
\* handler that returns the state it is given (submit) and one that throws on
\* each channel (invalid, offline), one emission record, three projections
\* (a prop is declared with a getter, with a setter and its guard, or with
\* both), optionally the viewupdated hook and the domchange trigger.
FormArgs(hook, watch) ==
    [ name       |-> "form",
      events     |-> [increment |-> "plain",
                      submit |-> "local", invalid |-> "local",
                      offline |-> "global"],
      emit       |-> << [when |-> "changed", emit |-> <<"change">>,
                         isArray |-> FALSE, channel |-> "absent"] >>,
      viewupdated |-> hook,
      domchange  |-> watch,
      redrawMode |-> "update",
      faulty     |-> FALSE,
      dommode    |-> "shadow",
      form       |-> TRUE,
      validate   |-> TRUE,
      props      |-> [value |-> "getset", parity |-> "get", reset |-> "set"] ]

FormArgsSet == {FormArgs(h, d) : h \in BOOLEAN, d \in BOOLEAN}

ArgsSet == {CounterArgs, RouterArgs} \cup {FullArgs(h, d) : h \in BOOLEAN, d \in BOOLEAN}

InitialState == 0

\* events: name -> handler (s, e, w) => State
Handler(name, s) ==
    CASE name = "increment" -> s + 1
      [] name = "hashchange" -> s + 1
      [] name = "submit"    -> s
      [] name = "focus"     -> s
      [] name = "popstate"  -> InitialState
      [] OTHER              -> s

\* emit[i].when: (os, ns) => boolean
When(id, os, ns) ==
    CASE id = "changed" -> os # ns
      [] id = "geq3"    -> ns >= 3
      [] id = "even"    -> ns % 2 = 0
      [] OTHER          -> FALSE

\* emit[i].emit: (s) => Event
Emitter(name, s) == [type |-> name, detail |-> s]

\* render: (s) => HTMLElement.  States 0 and 2 render equal trees, state 3
\* renders a node of another kind.
Render(s) == [nodeName |-> IF s >= 3 THEN "DIV" ELSE "P", text |-> s % 2]

\* document.createElement( "span" )
Span == [nodeName |-> "SPAN", text |-> 0]

\* viewupdated: (state, elem) => State.  Rounds an odd state down.
Viewupdated(s, elem) == IF s % 2 = 1 THEN s - 1 ELSE s

\* domchange: (s, elem, w) => State.  Resets when the host element carries
\* the attribute the trigger reads.
DomTrigger(s, hostAttr) == IF hostAttr THEN InitialState ELSE s

\* A viewupdated hook that throws instead of returning a state (the hook
\* of an instance declared faulty).
HookThrows(s) == s % 2 = 1

\* validate: the message of the pair [flags, message].  States 0 and 1 have
\* the same flags and different messages.
ValidateMessage(s) ==
    CASE s = 0 -> "missing"
      [] s = 1 -> "stillMissing"
      [] s = 2 -> "tooShort"
      [] OTHER -> ""

\* A handler that throws instead of returning a state.
Throws(name, s) == name \in {"invalid", "offline"}

\* formValue: (s) => string
FormValue(s) == 10 * s

\* The ten flags of ValidityStateFlags compared by _validityDiffers.
Flags ==
    {"valueMissing", "stepMismatch", "badInput", "customError", "patternMismatch",
     "rangeOverflow", "rangeUnderflow", "tooLong", "tooShort", "typeMismatch"}

\* validate: (s) => [flags, message]; the flags that are true.  States 0
\* and 1 are both reported as missing, state 2 is also too short.
Validate(s) ==
    CASE s <= 1 -> {"valueMissing"}
      [] s = 2  -> {"valueMissing", "tooShort"}
      [] OTHER  -> {}

\* props[name].get: (s) => T
PropGet(name, s) ==
    CASE name = "value"  -> s
      [] name = "parity" -> s % 2
      [] OTHER           -> -1

\* props[name].set: (s, v) => State
PropSet(name, s, v) ==
    CASE name = "value" -> v
      [] name = "reset" -> InitialState
      [] OTHER          -> s

\* props[name].predicate: (v) => v is T
PropGuard(name, v) == v >= 0

\* The reserved names of the earlier revisions (src/sources/core.ts).
GLOBAL_EVENTS == {"hashchange", "popstate"}

\* Mutant of LocalNames: the partition by reserved name of the earlier
\* revisions applied to plain functions.
LocalNamesReserved(a) ==
    {n \in DOMAIN a.events : \/ a.events[n] = "local"
                             \/ a.events[n] = "plain" /\ n \notin GLOBAL_EVENTS}

\* localEvents( events ): the names of the local table.  A plain function
\* and a record with channel "local" are kept.
LocalNames(a)  == {n \in DOMAIN a.events : a.events[n] \in {"plain", "local"}}

\* Mutant of GlobalNames: a plain function is kept in the global table too.
GlobalNamesWithPlain(a) ==
    {n \in DOMAIN a.events : a.events[n] \in {"plain", "global"}}

\* globalEvents( events ): the names of the global table.  Only a record
\* with channel "global" is kept.
GlobalNames(a) == {n \in DOMAIN a.events : a.events[n] = "global"}

\* --------------------------------------------------------------- variables
VARIABLES
    args,            \* constructor arguments (fixed after construction)
    state,           \* this._state
    deferredRedraw,  \* this._deferredRedraw (pendingRedraw)
    connected,       \* this._connected
    root,            \* this._root, the mounted node (its structure)
    rootId,          \* which node object this._root refers to; a fresh node
                     \* gets the identity other than the current one's
    localSubs,       \* event names with _localEventHandler attached on _document
    globalSubs,      \* event names with _globalEventHandler attached on window
    tasks,           \* number of enqueued setTimeout(.., 0) callbacks not yet run
    stack,           \* call stack of the instance, bottom first
    observing,       \* the MutationObserver is observing the host element
    queued,          \* the host has queued mutation records for the observer
    hostAttr,        \* the host attribute read by the domchange trigger
    \* history (not read by the program)
    calls,           \* every _changeState invocation: [old, new, epoch, inTask]
    passes,          \* every _maybeEmitEvents invocation: [old, new, epoch]
    trace,           \* every predicate evaluation and every dispatch
    epoch,           \* number of deferred tasks that have started executing
    lastTask,        \* what the last deferred task did
    invoked,         \* every invocation of a handler, of viewupdated and of
                     \* the domchange trigger, with what the instance was then
    dropped,         \* the last disconnect discarded queued mutation records
    formValue,       \* the submission value held by the host (setFormValue)
    validity,        \* the flags of this._internals.validity that are true
    formLog,         \* what the end of every _FormComponent._changeState did
    thrown,          \* the last handler call that threw
    other,           \* a second instance sharing window (two-instance runs)
    builder          \* a call of an object-builder combinator and its result

vars == << args, state, deferredRedraw, connected, root, rootId, localSubs,
           globalSubs, tasks, stack, observing, queued, hostAttr,
           calls, passes, trace, epoch, lastTask, invoked, dropped,
           formValue, validity, formLog, thrown, other, builder >>

World ==
    [ args |-> args, state |-> state, deferredRedraw |-> deferredRedraw,
      connected |-> connected, root |-> root, rootId |-> rootId,
      localSubs |-> localSubs,
      globalSubs |-> globalSubs, tasks |-> tasks, stack |-> stack,
      observing |-> observing, queued |-> queued, hostAttr |-> hostAttr,
      calls |-> calls, passes |-> passes, trace |-> trace, epoch |-> epoch,
      lastTask |-> lastTask, invoked |-> invoked, dropped |-> dropped,
      formValue |-> formValue, validity |-> validity, formLog |-> formLog,
      thrown |-> thrown ]

\* The fields of the instance after an operation.
Assign(w) ==
    /\ args' = w.args
    /\ state' = w.state
    /\ deferredRedraw' = w.deferredRedraw
    /\ connected' = w.connected
    /\ root' = w.root
    /\ rootId' = w.rootId
    /\ localSubs' = w.localSubs
    /\ globalSubs' = w.globalSubs
    /\ tasks' = w.tasks
    /\ stack' = w.stack
    /\ observing' = w.observing
    /\ queued' = w.queued
    /\ hostAttr' = w.hostAttr
    /\ calls' = w.calls
    /\ passes' = w.passes
    /\ trace' = w.trace
    /\ epoch' = w.epoch
    /\ lastTask' = w.lastTask
    /\ invoked' = w.invoked
    /\ dropped' = w.dropped
    /\ formValue' = w.formValue
    /\ validity' = w.validity
    /\ formLog' = w.formLog
    /\ thrown' = w.thrown

Set(w) ==
    /\ Assign(w)
    /\ other' = other
    /\ builder' = builder

\* ------------------------------------------------------------- call stack
EmitFrame(p, os)  == [k |-> "emit", pass |-> p, old |-> os, i |-> 1, j |-> 1]
TaskFrame         == [k |-> "task", pass |-> 0, old |-> 0, i |-> 0, j |-> 0]
ConnectFrame      == [k |-> "connect", pass |-> 0, old |-> 0, i |-> 0, j |-> 0]

Top(s)   == s[Len(s)]
Pop(s)   == SubSeq(s, 1, Len(s) - 1)
InTask(s) == Len(s) > 0 /\ s[1].k = "task"
\* Foreign code is running inside a listener of an emitted event.
InListener(s) == Len(s) > 0 /\ Top(s).k = "emit"

NoTask == [outcome |-> "none", rendered |-> -1, batchLast |-> -1, depth |-> 0]

\* No submission value has been pushed (an instance that is not a
\* FormComponent never pushes one).
NoValue == -1
NoThrow == [name |-> "none", from |-> "none"]
NoInstance == "none"
NoBuilder == "none"

\* The instance after new _Component( a ) or new _FormComponent( a ).
Constructed(a) ==
    [ args |-> a, state |-> InitialState, deferredRedraw |-> FALSE,
      connected |-> FALSE, root |-> Span, rootId |-> 0,
      localSubs |-> {}, globalSubs |-> {}, tasks |-> 0, stack |-> << >>,
      observing |-> FALSE, queued |-> FALSE, hostAttr |-> FALSE,
      calls |-> << >>, passes |-> << >>, trace |-> << >>, epoch |-> 0,
      lastTask |-> NoTask, invoked |-> << >>, dropped |-> FALSE,
      formValue |-> IF a.form THEN FormValue(InitialState) ELSE NoValue,
      validity |-> {}, formLog |-> << >>, thrown |-> NoThrow ]

\* The variables of the instance have the values of the record w.
Start(w) ==
    /\ args = w.args
    /\ state = w.state
    /\ deferredRedraw = w.deferredRedraw
    /\ connected = w.connected
    /\ root = w.root
    /\ rootId = w.rootId
    /\ localSubs = w.localSubs
    /\ globalSubs = w.globalSubs
    /\ tasks = w.tasks
    /\ stack = w.stack
    /\ observing = w.observing
    /\ queued = w.queued
    /\ hostAttr = w.hostAttr
    /\ calls = w.calls
    /\ passes = w.passes
    /\ trace = w.trace
    /\ epoch = w.epoch
    /\ lastTask = w.lastTask
    /\ invoked = w.invoked
    /\ dropped = w.dropped
    /\ formValue = w.formValue
    /\ validity = w.validity
    /\ formLog = w.formLog
    /\ thrown = w.thrown

Init ==
    /\ \E a \in ArgsSet : Start(Constructed(a))
    /\ other = NoInstance
    /\ builder = NoBuilder

\* ------------------------------------------------------------ the runtime
\* The state-changing commits made since the last deferred task started and
\* outside a deferred task: the commits of the current task-queue turns that
\* a pending task serves.
Batch(w) ==
    {n \in 1..Len(w.calls) : /\ w.calls[n].old # w.calls[n].new
                             /\ w.calls[n].epoch = w.epoch
                             /\ ~w.calls[n].inTask}

SetMax(S) == CHOOSE x \in S : \A y \in S : y <= x

BatchLast(w) == IF Batch(w) = {} THEN -1 ELSE w.calls[SetMax(Batch(w))].new

RECURSIVE RunEmit(_), Return(_), ChangeState(_, _), ConnectRest(_), Redraw(_)

\* A fresh node object: one that is not the node this._root refers to.
Fresh(id) == 1 - id

\* User code is called: fn is "handler", "viewupdated" or "domchange", from
\* names the caller.  The entry keeps the arguments and the condition of the
\* instance at the call; the commit of the result is calls[ncalls + 1].
Invoke(w, fn, from, name) ==
    [w EXCEPT !.invoked = Append(@,
        [fn |-> fn, from |-> from, name |-> name, state |-> w.state,
         root |-> w.root, rootId |-> w.rootId, connected |-> w.connected,
         mounted |-> w.root # Span,
         listening |-> (w.localSubs \cup w.globalSubs) # {},
         observing |-> w.observing, ncalls |-> Len(w.calls),
         epoch |-> w.epoch])]

\* Mutant of Channel: every event is dispatched on the instance.
ChannelAlwaysThis(r) == "this"

\* The dispatch target of a record of _maybeEmitEvents:
\* "global" === record.channel ? window : this
Channel(r) == IF "global" = r.channel THEN "window" ELSE "this"

\* Mutant of ValidityDiffers: only valueMissing is compared.
ValidityDiffersFirstFlag(host, flags) ==
    ("valueMissing" \in host) # ("valueMissing" \in flags)

\* _validityDiffers( flags ): a flag of the ten differs from the host's; a
\* flag missing from flags counts as false.
ValidityDiffers(host, flags) ==
    \E f \in Flags : (f \in host) # (f \in flags)

\* Mutant of FormTail: _maybeValidate does not look at this._connected.
FormTailAlwaysValidates(w, identity) ==
    IF ~w.args.form THEN w
    ELSE
    LET validated == w.args.validate
        flags     == Validate(w.state)
        pushed    == validated /\ ValidityDiffers(w.validity, flags)
    IN  [w EXCEPT !.formValue = FormValue(w.state),
                  !.validity = IF pushed THEN flags ELSE @,
                  !.formLog = Append(@,
                      [state |-> w.state, connected |-> w.connected,
                       identity |-> identity, value |-> FormValue(w.state),
                       validated |-> validated,
                       flags |-> IF validated THEN flags ELSE {},
                       host |-> w.validity, pushed |-> pushed,
                       ncalls |-> Len(w.calls), depth |-> Len(w.stack)])]

\* Mutant of FormTail: the submission value is pushed only while connected.
FormTailConnectedOnly(w, identity) ==
    IF ~w.args.form THEN w
    ELSE
    LET validated == w.connected /\ w.args.validate
        flags     == Validate(w.state)
        pushed    == validated /\ ValidityDiffers(w.validity, flags)
    IN  [w EXCEPT !.formValue = IF w.connected THEN FormValue(w.state) ELSE @,
                  !.validity = IF pushed THEN flags ELSE @,
                  !.formLog = Append(@,
                      [state |-> w.state, connected |-> w.connected,
                       identity |-> identity,
                       value |-> IF w.connected THEN FormValue(w.state) ELSE w.formValue,
                       validated |-> validated,
                       flags |-> IF validated THEN flags ELSE {},
                       host |-> w.validity, pushed |-> pushed,
                       ncalls |-> Len(w.calls), depth |-> Len(w.stack)])]

\* The end of _FormComponent._changeState, after super._changeState has
\* returned: setFormValue( formValue( state ) ), then _maybeValidate().
\* identity tells whether super returned at its identity check.
FormTail(w, identity) ==
    IF ~w.args.form THEN w
    ELSE
    LET validated == w.connected /\ w.args.validate
        flags     == Validate(w.state)
        pushed    == validated /\ ValidityDiffers(w.validity, flags)
    IN  [w EXCEPT !.formValue = FormValue(w.state),
                  !.validity = IF pushed THEN flags ELSE @,
                  !.formLog = Append(@,
                      [state |-> w.state, connected |-> w.connected,
                       identity |-> identity, value |-> FormValue(w.state),
                       validated |-> validated,
                       flags |-> IF validated THEN flags ELSE {},
                       host |-> w.validity, pushed |-> pushed,
                       ncalls |-> Len(w.calls), depth |-> Len(w.stack)])]

\* The call this._viewupdated( this._state, this._root ) throws.
HookFails(w) == w.args.faulty /\ HookThrows(w.state)

\* The exception of the hook leaves _redraw and the setTimeout callback:
\* the statement this._deferredRedraw = false after _redraw() is not
\* reached.
Unwind(w) ==
    [w EXCEPT !.stack = Pop(@),
              !.lastTask.outcome = "threw",
              !.thrown = [name |-> "viewupdated", from |-> "task"]]

\* The end of the setTimeout callback of _changeState: after _redraw has
\* returned, this._deferredRedraw = false.
TaskEnd(w) == [w EXCEPT !.deferredRedraw = FALSE, !.stack = Pop(@)]

\* _changeState (or _maybeEmitEvents) returns to its caller: a host callback
\* with nothing left to do, the listener of an outer dispatch, the timer
\* callback, or connectedCallback after the domchange commit.
Return(w) ==
    IF w.stack = <<>> THEN w
    ELSE CASE Top(w.stack).k = "emit"    -> w
           [] Top(w.stack).k = "task"    -> TaskEnd(w)
           [] Top(w.stack).k = "connect" -> ConnectRest(w)

\* Mutant of RunEmit: the loop ends after the first record that fires.
RunEmitFirstOnly(w) ==
    LET f    == Top(w.stack)
        recs == w.args.emit
        d    == Len(w.stack)
    IN  IF f.i > Len(recs) THEN Return(FormTail([w EXCEPT !.stack = Pop(@)], FALSE))
        ELSE
        LET r    == recs[f.i]
            fire == IF f.j = 1 THEN When(r.when, f.old, w.state) ELSE TRUE
            whenEntry == [kind |-> "when", pass |-> f.pass, rec |-> f.i, em |-> 0,
                          old |-> f.old, seen |-> w.state, result |-> fire,
                          type |-> r.when, target |-> "none", epoch |-> w.epoch,
                          ncalls |-> Len(w.calls)]
            w1   == IF f.j = 1 THEN [w EXCEPT !.trace = Append(@, whenEntry)] ELSE w
        IN  IF ~fire \/ f.j > Len(r.emit)
            THEN RunEmit([w1 EXCEPT !.stack[d].i = f.i + 1, !.stack[d].j = 1])
            ELSE
            LET ev == Emitter(r.emit[f.j], w.state)
                emitEntry == [kind |-> "emit", pass |-> f.pass, rec |-> f.i, em |-> f.j,
                              old |-> f.old, seen |-> ev.detail, result |-> TRUE,
                              type |-> ev.type,
                              target |-> Channel(r),
                              epoch |-> w.epoch, ncalls |-> Len(w.calls)]
                last == f.j >= Len(r.emit)
            IN  [w1 EXCEPT !.trace = Append(@, emitEntry),
                           !.stack[d].i = IF last THEN Len(recs) + 1 ELSE f.i,
                           !.stack[d].j = IF last THEN 1 ELSE f.j + 1]

\* Mutant of RunEmit: the emitter is given the old state.
RunEmitStaleEmitter(w) ==
    LET f    == Top(w.stack)
        recs == w.args.emit
        d    == Len(w.stack)
    IN  IF f.i > Len(recs) THEN Return(FormTail([w EXCEPT !.stack = Pop(@)], FALSE))
        ELSE
        LET r    == recs[f.i]
            fire == IF f.j = 1 THEN When(r.when, f.old, w.state) ELSE TRUE
            whenEntry == [kind |-> "when", pass |-> f.pass, rec |-> f.i, em |-> 0,
                          old |-> f.old, seen |-> w.state, result |-> fire,
                          type |-> r.when, target |-> "none", epoch |-> w.epoch,
                          ncalls |-> Len(w.calls)]
            w1   == IF f.j = 1 THEN [w EXCEPT !.trace = Append(@, whenEntry)] ELSE w
        IN  IF ~fire \/ f.j > Len(r.emit)
            THEN RunEmit([w1 EXCEPT !.stack[d].i = f.i + 1, !.stack[d].j = 1])
            ELSE
            LET ev == Emitter(r.emit[f.j], f.old)
                emitEntry == [kind |-> "emit", pass |-> f.pass, rec |-> f.i, em |-> f.j,
                              old |-> f.old, seen |-> ev.detail, result |-> TRUE,
                              type |-> ev.type,
                              target |-> Channel(r),
                              epoch |-> w.epoch, ncalls |-> Len(w.calls)]
                last == f.j >= Len(r.emit)
            IN  [w1 EXCEPT !.trace = Append(@, emitEntry),
                           !.stack[d].i = IF last THEN f.i + 1 ELSE f.i,
                           !.stack[d].j = IF last THEN 1 ELSE f.j + 1]

\* The capturing listeners of the instance are on this._document: the closed
\* shadow root, which is not on the path of an event dispatched on the
\* element, or, with dommode "light", the element itself, where an event
\* dispatched on the element is at its target and the listener registered
\* for its type is called.
SelfDelivered(w, name, target) ==
    /\ target = "this"
    /\ w.args.dommode = "light"
    /\ name \in w.localSubs

\* dispatchEvent( event ) on the target: _localEventHandler runs inside the
\* dispatch when the event reaches the instance's own listener; the other
\* listeners are foreign code.
Deliver(w, name, target) ==
    IF SelfDelivered(w, name, target)
    THEN IF Throws(name, w.state)
         THEN [w EXCEPT !.thrown = [name |-> name, from |-> "emitted"]]
         ELSE ChangeState(Invoke(w, "handler", "emitted", name), Handler(name, w.state))
    ELSE w

\* The for-loop of _maybeEmitEvents, from the position of the top frame to
\* the next dispatchEvent (whose listeners then run) or to the end of the
\* loop.  Predicate and emitters read this._state at the time they run.
RunEmit(w) ==
    LET f    == Top(w.stack)
        recs == w.args.emit
        d    == Len(w.stack)
    IN  IF f.i > Len(recs) THEN Return(FormTail([w EXCEPT !.stack = Pop(@)], FALSE))
        ELSE
        LET r    == recs[f.i]
            fire == IF f.j = 1 THEN When(r.when, f.old, w.state) ELSE TRUE
            whenEntry == [kind |-> "when", pass |-> f.pass, rec |-> f.i, em |-> 0,
                          old |-> f.old, seen |-> w.state, result |-> fire,
                          type |-> r.when, target |-> "none", epoch |-> w.epoch,
                          ncalls |-> Len(w.calls)]
            w1   == IF f.j = 1 THEN [w EXCEPT !.trace = Append(@, whenEntry)] ELSE w
        IN  IF ~fire \/ f.j > Len(r.emit)
            THEN RunEmit([w1 EXCEPT !.stack[d].i = f.i + 1, !.stack[d].j = 1])
            ELSE
            LET ev == Emitter(r.emit[f.j], w.state)
                emitEntry == [kind |-> "emit", pass |-> f.pass, rec |-> f.i, em |-> f.j,
                              old |-> f.old, seen |-> ev.detail, result |-> TRUE,
                              type |-> ev.type,
                              target |-> Channel(r),
                              epoch |-> w.epoch, ncalls |-> Len(w.calls)]
                last == f.j >= Len(r.emit)
            IN  Deliver([w1 EXCEPT !.trace = Append(@, emitEntry),
                                   !.stack[d].i = IF last THEN f.i + 1 ELSE f.i,
                                   !.stack[d].j = IF last THEN 1 ELSE f.j + 1],
                        ev.type, Channel(r))

\* _maybeEmitEvents( oldState )
MaybeEmitEvents(w, oldState) ==
    RunEmit([w EXCEPT
        !.passes = Append(@, [old |-> oldState, new |-> w.state, epoch |-> w.epoch]),
        !.stack  = Append(@, EmitFrame(Len(w.passes) + 1, oldState))])

\* Mutant of Schedule: a commit made inside the timer callback redraws at
\* once.
ScheduleSync(w) ==
    IF InTask(w.stack)
    THEN Redraw([w EXCEPT !.stack = Append(@, TaskFrame)])
    ELSE IF ~w.deferredRedraw
         THEN [w EXCEPT !.tasks = @ + 1, !.deferredRedraw = TRUE]
         ELSE w

\* Mutant of Schedule: a timer is set by every commit.
ScheduleAlways(w) == [w EXCEPT !.tasks = @ + 1, !.deferredRedraw = TRUE]

\* Mutant of Schedule: the flag is not raised after the timer is set.
ScheduleNoFlag(w) ==
    IF ~w.deferredRedraw THEN [w EXCEPT !.tasks = @ + 1] ELSE w

\* The scheduling step of _changeState: setTimeout unless one is pending.
Schedule(w) ==
    IF ~w.deferredRedraw
    THEN [w EXCEPT !.tasks = @ + 1, !.deferredRedraw = TRUE]
    ELSE w

\* Mutant of ChangeState: no identity check.
ChangeStateNoIdentity(w, newState) ==
    MaybeEmitEvents(Schedule([w EXCEPT
        !.calls = Append(@, [old |-> w.state, new |-> newState, epoch |-> w.epoch,
                             inTask |-> InTask(w.stack)]),
        !.state = newState]), w.state)

\* Mutant of ChangeState: oldState is read after the state cell is replaced.
ChangeStateLateOld(w, newState) ==
    LET logged == [w EXCEPT !.calls = Append(@,
                      [old |-> w.state, new |-> newState, epoch |-> w.epoch,
                       inTask |-> InTask(w.stack)])]
    IN  IF w.state = newState
        THEN Return(FormTail(logged, TRUE))
        ELSE MaybeEmitEvents(Schedule([logged EXCEPT !.state = newState]), newState)

\* _changeState( newState ).  The console.log of the debug option changes
\* no state and is left out.
ChangeState(w, newState) ==
    LET logged == [w EXCEPT !.calls = Append(@,
                      [old |-> w.state, new |-> newState, epoch |-> w.epoch,
                       inTask |-> InTask(w.stack)])]
    IN  IF w.state = newState
        THEN Return(FormTail(logged, TRUE))
        ELSE MaybeEmitEvents(Schedule([logged EXCEPT !.state = newState]), w.state)

\* The runtime has changed the children of this._document.  The observer
\* watches the element with its subtree: a change inside the closed shadow
\* root is not reported, a change of the element's own children (dommode
\* "light") queues a record.
RuntimeMutation(w) ==
    [w EXCEPT !.queued = @ \/ (w.observing /\ w.args.dommode = "light")]

\* Mutant of ConnectRest: connectedCallback ends without the viewupdated
\* call.
ConnectRestNoHook(w) ==
    Return([w EXCEPT !.stack = Pop(@),
                     !.root = Render(w.state),
                     !.rootId = Fresh(@),
                     !.localSubs = LocalNames(w.args),
                     !.globalSubs = GlobalNames(w.args),
                     !.connected = TRUE])

\* connectedCallback from the first render on (lines 475-493): render and
\* mount, attach the listeners of both tables, this._connected = true, then
\* the viewupdated commit.
ConnectRest(w) ==
    LET w1 == RuntimeMutation([w EXCEPT !.stack = Pop(@),
                        !.root = Render(w.state),
                        !.rootId = Fresh(@),
                        !.localSubs = LocalNames(w.args),
                        !.globalSubs = GlobalNames(w.args),
                        !.connected = TRUE])
    IN  IF w1.args.viewupdated
        THEN IF HookFails(w1)
             THEN Return([w1 EXCEPT !.thrown = [name |-> "viewupdated", from |-> "connect"]])
             ELSE ChangeState(Invoke(w1, "viewupdated", "connect", "viewupdated"),
                              Viewupdated(w1.state, w1.root))
        ELSE Return(w1)

\* Mutant of ConnectedCallback: the first render is mounted and the
\* listeners are attached before the synthetic trigger is called.
ConnectedCallbackMountFirst(w) ==
    LET w0 == [w EXCEPT !.stack = Append(@, ConnectFrame), !.dropped = FALSE,
                        !.root = Render(w.state), !.rootId = Fresh(@),
                        !.localSubs = LocalNames(w.args),
                        !.globalSubs = GlobalNames(w.args)]
    IN  IF w0.args.domchange
        THEN ChangeState(Invoke([w0 EXCEPT !.observing = TRUE],
                                "domchange", "connect", "domchange"),
                         DomTrigger(w0.state, w0.hostAttr))
        ELSE ConnectRest(w0)

\* connectedCallback.  With domchange configured it starts with
\* _connectMutationObserver and the commit of the trigger's result.
ConnectedCallback(w) ==
    LET w0 == [w EXCEPT !.stack = Append(@, ConnectFrame), !.dropped = FALSE]
    IN  IF w0.args.domchange
        THEN ChangeState(Invoke([w0 EXCEPT !.observing = TRUE],
                                "domchange", "connect", "domchange"),
                         DomTrigger(w0.state, w0.hostAttr))
        ELSE ConnectRest(w0)

\* Mutant of DisconnectedCallback: the state is reset to the initial state.
DisconnectedCallbackResetsState(w) ==
    [w EXCEPT !.connected = FALSE, !.root = Span, !.rootId = Fresh(@),
              !.observing = FALSE, !.queued = FALSE, !.dropped = w.queued,
              !.localSubs = {}, !.globalSubs = {}, !.state = InitialState]

\* Mutant of DisconnectedCallback: the listeners on window stay attached.
DisconnectedCallbackKeepsGlobal(w) ==
    [w EXCEPT !.connected = FALSE, !.root = Span, !.rootId = Fresh(@),
              !.observing = FALSE, !.queued = FALSE, !.dropped = w.queued,
              !.localSubs = {}]

\* Mutant of DisconnectedCallback: the listeners on the boundary stay
\* attached.
DisconnectedCallbackKeepsLocal(w) ==
    [w EXCEPT !.connected = FALSE, !.root = Span, !.rootId = Fresh(@),
              !.observing = FALSE, !.queued = FALSE, !.dropped = w.queued,
              !.globalSubs = {}]

\* Mutant of DisconnectedCallback: the observer is left observing, with its
\* queued records.
DisconnectedCallbackKeepsObserver(w) ==
    [w EXCEPT !.connected = FALSE, !.root = Span, !.rootId = Fresh(@),
              !.localSubs = {}, !.globalSubs = {}]

\* disconnectedCallback.  observer.disconnect() also empties the observer's
\* record queue.
DisconnectedCallback(w) ==
    [w EXCEPT !.connected = FALSE, !.root = Span, !.rootId = Fresh(@),
              !.observing = FALSE, !.queued = FALSE, !.dropped = w.queued,
              !.localSubs = {}, !.globalSubs = {}]

\* Mutant of IsEqualNode: the candidate is never found equal.
IsEqualNodeNever(a, b) == FALSE

\* this._root.isEqualNode( rendered )
IsEqualNode(a, b) == a = b

\* Mutant of Swap: only redrawMode decides.
SwapModeOnly(w, rendered) == w.args.redrawMode = "replace"

\* The condition of the whole-subtree swap of _redraw (lines 554-555).
Swap(w, rendered) ==
    w.args.redrawMode = "replace" \/ w.root.nodeName # rendered.nodeName

\* The number of executions of the timer callback on a call stack.
Depth(s) == Cardinality({d \in 1..Len(s) : s[d].k = "task"})

\* Mutant of Redraw: no check of this._connected.
RedrawNoGuard(w) ==
    LET w0 == [w EXCEPT !.lastTask.depth = Depth(w.stack)]
    IN
    IF FALSE
    THEN Return([w0 EXCEPT !.lastTask.outcome = "skipped"])
    ELSE
    LET rendered == Render(w.state)
        w1 == [w0 EXCEPT !.lastTask.rendered = w.state]
    IN  IF IsEqualNode(w.root, rendered)
        THEN Return([w1 EXCEPT !.lastTask.outcome = "equal"])
        ELSE
        LET w2 == [w1 EXCEPT !.root = rendered,
                     !.rootId = IF Swap(w, rendered) THEN Fresh(@) ELSE @,
                     !.lastTask.outcome =
                        IF Swap(w, rendered) THEN "replace" ELSE "patch"]
        IN  IF w2.args.viewupdated
            THEN IF HookFails(w2)
                 THEN Unwind(w2)
                 ELSE ChangeState(Invoke(w2, "viewupdated", "redraw", "viewupdated"),
                                  Viewupdated(w2.state, w2.root))
            ELSE Return(w2)

\* _redraw, called by the timer callback (the task frame is on the stack).
\* replaceWith mounts the candidate, a fresh node; morphdom patches the
\* mounted node into the candidate's structure and keeps this._root.
Redraw(w) ==
    LET w0 == [w EXCEPT !.lastTask.depth = Depth(w.stack)]
    IN
    IF ~w.connected
    THEN Return([w0 EXCEPT !.lastTask.outcome = "skipped"])
    ELSE
    LET rendered == Render(w.state)
        w1 == [w0 EXCEPT !.lastTask.rendered = w.state]
    IN  IF IsEqualNode(w.root, rendered)
        THEN Return([w1 EXCEPT !.lastTask.outcome = "equal"])
        ELSE
        LET w2 == RuntimeMutation([w1 EXCEPT !.root = rendered,
                     !.rootId = IF Swap(w, rendered) THEN Fresh(@) ELSE @,
                     !.lastTask.outcome =
                        IF Swap(w, rendered) THEN "replace" ELSE "patch"])
        IN  IF w2.args.viewupdated
            THEN IF HookFails(w2)
                 THEN Unwind(w2)
                 ELSE ChangeState(Invoke(w2, "viewupdated", "redraw", "viewupdated"),
                                  Viewupdated(w2.state, w2.root))
            ELSE Return(w2)

\* The setTimeout callback of _changeState: () => { _redraw(); flag = false }
TimerCallback(w) ==
    Redraw([w EXCEPT !.tasks = @ - 1,
                     !.epoch = @ + 1,
                     !.stack = Append(@, TaskFrame),
                     !.lastTask = [outcome |-> "none", rendered |-> -1,
                                   batchLast |-> BatchLast(w), depth |-> 0]])

\* The handler of the event threw: the exception leaves the listener before
\* _changeState is called (the host reports it).
Throw(w, from, name) == [w EXCEPT !.thrown = [name |-> name, from |-> from]]

\* Mutant of LocalEventHandler: the commit is made with the current state
\* before the handler is called.
LocalEventHandlerCommitsFirst(w, name) ==
    IF Throws(name, w.state)
    THEN Throw(ChangeState(Invoke(w, "handler", "local", name), w.state),
               "local", name)
    ELSE ChangeState(Invoke(w, "handler", "local", name), Handler(name, w.state))

\* _localEventHandler( event ).  preventDefault and stopImmediatePropagation
\* act on the event only.
LocalEventHandler(w, name) ==
    IF Throws(name, w.state)
    THEN Throw(w, "local", name)
    ELSE ChangeState(Invoke(w, "handler", "local", name), Handler(name, w.state))

\* _globalEventHandler( event )
GlobalEventHandler(w, name) ==
    IF Throws(name, w.state)
    THEN Throw(w, "global", name)
    ELSE ChangeState(Invoke(w, "handler", "global", name), Handler(name, w.state))

\* An event of type name reaches the instance's boundary (this._document):
\* the capturing listener runs when one is attached for that type.
DispatchLocal(w, name) ==
    IF name \in w.localSubs THEN LocalEventHandler(w, name) ELSE w

\* An event of type name is dispatched on window.
DispatchGlobal(w, name) ==
    IF name \in w.globalSubs THEN GlobalEventHandler(w, name) ELSE w

\* Mutant of Domchanged: the trigger is called and its result is dropped.
DomchangedNoCommit(w) ==
    Invoke([w EXCEPT !.queued = FALSE], "domchange", "observer", "domchange")

\* the MutationObserver callback domchanged( changes )
Domchanged(w) ==
    ChangeState(Invoke([w EXCEPT !.queued = FALSE], "domchange", "observer", "domchange"),
                DomTrigger(w.state, w.hostAttr))

\* ---------------------------------------------------------------- actions
Bounded(w) == Len(w.calls) <= MaxCalls /\ w.state <= MaxState

\* The host, or a listener of an emitted event, dispatches a local event
\* inside the instance's boundary.
LocalEvent(name) ==
    /\ stack = <<>> \/ InListener(stack)
    /\ Bounded(DispatchLocal(World, name))
    /\ Set(DispatchLocal(World, name))

\* The host, or a listener of an emitted event, dispatches a global event on
\* window.
GlobalEvent(name) ==
    /\ stack = <<>> \/ InListener(stack)
    /\ Bounded(DispatchGlobal(World, name))
    /\ Set(DispatchGlobal(World, name))

\* The listeners of the event being dispatched have all returned:
\* _maybeEmitEvents goes on.
ListenerReturn ==
    /\ InListener(stack)
    /\ Bounded(RunEmit(World))
    /\ Set(RunEmit(World))

\* The host inserts the element into a document.
Connect ==
    /\ stack = <<>>
    /\ ~connected
    /\ Bounded(ConnectedCallback(World))
    /\ Set(ConnectedCallback(World))

\* The host removes the element from its document.
Disconnect ==
    /\ stack = <<>>
    /\ connected
    /\ Set(DisconnectedCallback(World))

\* The host runs the oldest timer task.
RunTask ==
    /\ stack = <<>>
    /\ tasks > 0
    /\ Bounded(TimerCallback(World))
    /\ Set(TimerCallback(World))

\* Foreign code changes the attribute of the host element; the host queues
\* a mutation record when the element is observed.
MutateHost ==
    /\ stack = <<>>
    /\ Set([World EXCEPT !.hostAttr = ~hostAttr,
                         !.queued = (queued \/ observing)])

\* The host delivers the queued mutation records.
DeliverMutations ==
    /\ stack = <<>>
    /\ queued
    /\ Bounded(Domchanged(World))
    /\ Set(Domchanged(World))

EventNames ==
    {"increment", "focus", "popstate", "hashchange", "submit", "invalid", "offline",
     "change"}

Next ==
    \/ \E name \in EventNames : LocalEvent(name)
    \/ \E name \in EventNames : GlobalEvent(name)
    \/ ListenerReturn
    \/ Connect
    \/ Disconnect
    \/ RunTask
    \/ MutateHost
    \/ DeliverMutations

Spec == Init /\ [][Next]_vars

\* ------------------------------------------------ FormComponent and props
\* Mutant of ReadProp: the getter returns the value of the state rendered
\* by the last redraw.
ReadPropCached(w, name) ==
    [ value |-> IF w.args.props[name] \in {"get", "getset"}
                THEN PropGet(name, IF w.lastTask.rendered >= 0
                                   THEN w.lastTask.rendered ELSE InitialState)
                ELSE -1,
      world |-> w ]

\* Reading the field name of the instance: the getter installed by
\* _defineProps returns $get( $this._state ); a field declared without a
\* getter is a data property without value.
ReadProp(w, name) ==
    [ value |-> IF w.args.props[name] \in {"get", "getset"}
                THEN PropGet(name, w.state) ELSE -1,
      world |-> w ]

\* Assigning v to the field name of the instance.  _defineProps installs no
\* set accessor: the descriptor has at most a get, so the assignment is
\* ignored or throws a TypeError in the assigning code, and nothing of the
\* instance changes either way.
WriteProp(w, name, v) == w

PropValues == {0, 2}

\* Foreign code reads a projected field.
ReadField(name) ==
    /\ name \in DOMAIN args.props
    /\ Set(ReadProp(World, name).world)

\* Foreign code assigns to a projected field.
WriteField(name, v) ==
    /\ name \in DOMAIN args.props
    /\ Set(WriteProp(World, name, v))

PropNames == {"value", "parity", "reset"}

InitForm ==
    /\ \E a \in FormArgsSet : Start(Constructed(a))
    /\ other = NoInstance
    /\ builder = NoBuilder

NextForm ==
    \/ Next
    \/ \E name \in PropNames : ReadField(name)
    \/ \E name \in PropNames, v \in PropValues : WriteField(name, v)

SpecForm == InitForm /\ [][NextForm]_vars

\* ---------------------------------------------- a hook that can throw
\* The richer instance with a viewupdated hook that throws at some states,
\* with and without the domchange trigger.
FaultyArgs(watch) ==
    [FullArgs(TRUE, watch) EXCEPT !.name = "faulty", !.faulty = TRUE]

InitFaulty ==
    /\ \E watch \in BOOLEAN : Start(Constructed(FaultyArgs(watch)))
    /\ other = NoInstance
    /\ builder = NoBuilder

SpecFaulty == InitFaulty /\ [][Next]_vars

\* ------------------------------------------------------- dommode "light"
\* An instance without shadow root: this._document is the element itself.
\* The emitted event has the name of a declared local handler.
LightArgs(watch) ==
    [ name       |-> "light",
      events     |-> [increment |-> "plain", change |-> "plain", focus |-> "global"],
      emit       |-> << [when |-> "changed", emit |-> <<"change">>,
                         isArray |-> FALSE, channel |-> "absent"] >>,
      viewupdated |-> FALSE,
      domchange  |-> watch,
      redrawMode |-> "update",
      faulty     |-> FALSE,
      dommode    |-> "light",
      form       |-> FALSE,
      validate   |-> FALSE,
      props      |-> << >> ]

InitLight ==
    /\ \E watch \in BOOLEAN : Start(Constructed(LightArgs(watch)))
    /\ other = NoInstance
    /\ builder = NoBuilder

\* Foreign code dispatches events and the host runs its callbacks; nothing
\* but the runtime changes the host tree.
NextLight ==
    \/ \E name \in EventNames : LocalEvent(name)
    \/ \E name \in EventNames : GlobalEvent(name)
    \/ ListenerReturn
    \/ Connect
    \/ Disconnect
    \/ RunTask
    \/ DeliverMutations

SpecLight == InitLight /\ [][NextLight]_vars

\* ------------------------------------------- two instances in one window
\* Two instances of one component class: a global hashchange handler and a
\* local increment handler, no emission record.
TwinArgs ==
    [ name       |-> "twin",
      events     |-> [hashchange |-> "global", increment |-> "plain"],
      emit       |-> << >>,
      viewupdated |-> FALSE,
      domchange  |-> FALSE,
      redrawMode |-> "update",
      faulty     |-> FALSE,
      dommode    |-> "shadow",
      form       |-> FALSE,
      validate   |-> FALSE,
      props      |-> << >> ]

Instances == {"A", "B"}

\* Instance A lives in the variables of the instance, instance B and the
\* listener list of window in the variable other.  A listener of window is a
\* pair << event name, callback >>.
Twin == [a |-> World, b |-> other.b, window |-> other.window]

Inst(t, who) == IF who = "A" THEN t.a ELSE t.b

With(t, who, w) == IF who = "A" THEN [t EXCEPT !.a = w] ELSE [t EXCEPT !.b = w]

\* Mutant of ListenerOf: the handler is the unbound method of the class, one
\* function shared by all the instances.
ListenerOfUnbound(who) == "prototype"

\* The callback an instance hands to window: the constructor replaces
\* this._globalEventHandler by this._globalEventHandler.bind( this ), a
\* function of this instance only.
ListenerOf(who) == who

\* The listeners of an instance on window.
WindowListeners(w, who) == {<<n, ListenerOf(who)>> : n \in GlobalNames(w.args)}

\* connectedCallback of one instance: window.addEventListener( name,
\* this._globalEventHandler ) for every global name.
TwinConnected(t, who) ==
    LET w == ConnectedCallback(Inst(t, who))
    IN  [With(t, who, w) EXCEPT !.window = @ \cup WindowListeners(w, who)]

\* disconnectedCallback of one instance: window.removeEventListener( name,
\* this._globalEventHandler ) for every global name.
TwinDisconnected(t, who) ==
    LET w == DisconnectedCallback(Inst(t, who))
    IN  [With(t, who, w) EXCEPT !.window = @ \ WindowListeners(w, who)]

\* window.dispatchEvent( event ): window calls every listener registered for
\* the type; the bound function of an instance runs _globalEventHandler on
\* that instance.
WindowDispatch(t, name) ==
    [t EXCEPT !.a = IF <<name, "A">> \in t.window
                    THEN GlobalEventHandler(t.a, name) ELSE t.a,
              !.b = IF <<name, "B">> \in t.window
                    THEN GlobalEventHandler(t.b, name) ELSE t.b]

SetTwin(t) ==
    /\ Assign(t.a)
    /\ other' = [b |-> t.b, window |-> t.window]
    /\ builder' = builder

\* The commits of the two instances together are bounded.
BoundedTwin(t) ==
    /\ Len(t.a.calls) + Len(t.b.calls) <= MaxCalls
    /\ t.a.state <= MaxState /\ t.b.state <= MaxState

\* The host inserts one of the elements into the document.
TwinConnect(who) ==
    /\ ~Inst(Twin, who).connected
    /\ SetTwin(TwinConnected(Twin, who))

\* The host removes one of the elements from the document.
TwinDisconnect(who) ==
    /\ Inst(Twin, who).connected
    /\ SetTwin(TwinDisconnected(Twin, who))

\* A local event is dispatched inside the boundary of one instance.
TwinLocalEvent(who, name) ==
    LET t == With(Twin, who, DispatchLocal(Inst(Twin, who), name))
    IN  BoundedTwin(t) /\ SetTwin(t)

\* The host runs the oldest timer task of one instance.
TwinRunTask(who) ==
    /\ Inst(Twin, who).tasks > 0
    /\ SetTwin(With(Twin, who, TimerCallback(Inst(Twin, who))))

\* A global event is dispatched on window.
TwinWindowEvent(name) ==
    /\ BoundedTwin(WindowDispatch(Twin, name))
    /\ SetTwin(WindowDispatch(Twin, name))

InitTwo ==
    /\ Start(Constructed(TwinArgs))
    /\ other = [b |-> Constructed(TwinArgs), window |-> {}]
    /\ builder = NoBuilder

NextTwo ==
    \/ \E who \in Instances : TwinConnect(who)
    \/ \E who \in Instances : TwinDisconnect(who)
    \/ \E who \in Instances : TwinLocalEvent(who, "increment")
    \/ \E who \in Instances : TwinRunTask(who)
    \/ TwinWindowEvent("hashchange")

SpecTwo == InitTwo /\ [][NextTwo]_vars

\* ---------------------------------------------- object-update combinators
\* The values handed to the combinators: numbers 0..MaxValue (0 is falsy),
\* NaN, undefined, and Error objects, each with its own identity.
MaxValue == 1

Num(n) == [k |-> "num", v |-> n]
Undefined == [k |-> "undefined", v |-> 0]
NaN == [k |-> "nan", v |-> 0]
Err(id) == [k |-> "error", v |-> id]

ErrorIds == {1, 2}
Keys == {"a", "b"}
Numbers == {Num(n) : n \in 0..MaxValue}
Errors == {Err(id) : id \in ErrorIds}
Values == Numbers \cup Errors \cup {Undefined, NaN}

\* The objects: a function from the keys the object has to their values.
Objects == UNION {[D -> Numbers \cup {Undefined, NaN}] : D \in SUBSET Keys}

\* a === b: numbers and undefined by value, Error objects by identity; NaN
\* is not equal to itself.
StrictEqual(a, b) == a = b /\ a.k # "nan"

\* value instanceof Error
IsError(value) == value.k = "error"

\* value ? ... : ...  (0 and undefined are falsy, an Error object is truthy)
Truthy(value) == value.k = "error" \/ (value.k = "num" /\ value.v # 0)

\* obj[key]: undefined when the object has no such key.
Get(obj, key) == IF key \in DOMAIN obj THEN obj[key] ELSE Undefined

\* { ...obj, [key]: value }
Spread(obj, key, value) ==
    [x \in DOMAIN obj \cup {key} |-> IF x = key THEN value ELSE obj[x]]

\* The callback of the caller: it returns what it was called with.
Callback(obj, changed) == [k |-> "built", v |-> [obj |-> obj, changed |-> changed]]

\* Mutant of Update: the object is always spread.
UpdateAlwaysBuilds(obj, key, value) ==
    [ ret |-> Callback(Spread(obj, key, value), TRUE), called |-> TRUE,
      arg |-> Spread(obj, key, value), changed |-> TRUE, built |-> TRUE ]

\* update( obj, key, value, callback ).  The outcome records the value
\* returned, whether the callback was invoked and with what, and whether a
\* new object was built (the callback receives obj itself when none was).
Update(obj, key, value) ==
    LET change == ~StrictEqual(Get(obj, key), value)
        arg == IF change THEN Spread(obj, key, value) ELSE obj
    IN  [ ret |-> Callback(arg, change), called |-> TRUE, arg |-> arg,
          changed |-> change, built |-> change ]

\* optional( obj, key, value, callback )
Optional(obj, key, value) ==
    Update(obj, key, IF Truthy(value) THEN value ELSE Undefined)

\* Mutant of Required: an Error value is stored like any other value.
RequiredStoresError(obj, key, value) == Update(obj, key, value)

\* required( obj, key, value, callback )
Required(obj, key, value) ==
    IF IsError(value)
    THEN [ ret |-> value, called |-> FALSE, arg |-> << >>,
           changed |-> FALSE, built |-> FALSE ]
    ELSE Update(obj, key, value)

NoOutcome == [ ret |-> Undefined, called |-> FALSE, arg |-> << >>,
               changed |-> FALSE, built |-> FALSE ]

\* The caller applies one of the combinators to its inputs.
Apply(fn, out) ==
    /\ builder.fn = "none"
    /\ builder' = [builder EXCEPT !.fn = fn, !.out = out]
    /\ Assign(World)
    /\ other' = other

ApplyUpdate == Apply("update", Update(builder.obj, builder.key, builder.value))

ApplyOptional == Apply("optional", Optional(builder.obj, builder.key, builder.value))

ApplyRequired == Apply("required", Required(builder.obj, builder.key, builder.value))

InitBuilder ==
    /\ Start(Constructed(CounterArgs))
    /\ other = NoInstance
    /\ \E obj \in Objects, key \in Keys, value \in Values :
          builder = [obj |-> obj, key |-> key, value |-> value,
                     fn |-> "none", out |-> NoOutcome]

NextBuilder == ApplyUpdate \/ ApplyOptional \/ ApplyRequired

SpecBuilder == InitBuilder /\ [][NextBuilder]_vars

\* ------------------------------------- the revision of src/sources/core.ts
\* In this revision events maps a name to a handler function, the names of
\* GLOBAL_EVENTS go to window and the others to the shadow root, and the
\* local listener is a closure made by _bindEvents at every connect.  The
\* instance of this revision lives in the variable other.
MaxMounts == 3

CoreEvents == {"increment", "focus", "hashchange"}

\* localEvents( events ) of core.ts
CoreLocalNames == CoreEvents \ GLOBAL_EVENTS

\* globalEvents( events ) of core.ts
CoreGlobalNames == CoreEvents \cap GLOBAL_EVENTS

NoDelivery == [name |-> "none", invoked |-> 0, commits |-> 0, from |-> 0]

\* The instance after construction.  listeners is the listener list of the
\* shadow root in the order of addition: the event name and the connect
\* that made the closure.
CoreConstructed ==
    [ state |-> InitialState, mounted |-> FALSE, root |-> Span,
      listeners |-> << >>, globalSubs |-> {}, mounts |-> 0,
      deferredRedraw |-> FALSE, tasks |-> 0, ncalls |-> 0,
      last |-> NoDelivery ]

\* _changeState( newState ) of core.ts (no emission record declared)
CoreChangeState(c, ns) ==
    LET called == [c EXCEPT !.ncalls = @ + 1]
    IN  IF c.state = ns THEN called
        ELSE [called EXCEPT !.state = ns,
                            !.last.commits = @ + 1,
                            !.tasks = IF c.deferredRedraw THEN @ ELSE @ + 1,
                            !.deferredRedraw = TRUE]

\* _bindEvents( events, shadowdom ): one new closure, added for every local
\* name.
RECURSIVE BindEvents(_, _, _)
BindEvents(listeners, names, mount) ==
    IF names = {} THEN listeners
    ELSE LET n == CHOOSE x \in names : TRUE
         IN  BindEvents(Append(listeners, [name |-> n, mount |-> mount]),
                        names \ {n}, mount)

\* connectedCallback of core.ts (no viewupdated hook declared)
CoreConnected(c) ==
    [c EXCEPT !.root = Render(c.state),
              !.mounted = TRUE,
              !.mounts = @ + 1,
              !.listeners = BindEvents(@, CoreLocalNames, c.mounts + 1),
              !.globalSubs = @ \cup CoreGlobalNames]

\* disconnectedCallback of core.ts: the shadow root is emptied and the
\* listeners on window are removed; the listeners on the shadow root stay.
CoreDisconnected(c) ==
    [c EXCEPT !.mounted = FALSE,
              !.globalSubs = @ \ CoreGlobalNames]

\* Mutant of StopsImmediate: the closure lets the event go on.
StopsImmediateNever(name) == FALSE

\* eventHandler of _bindEvents calls event.stopImmediatePropagation() before
\* the handler: the host calls no further listener for the event.
StopsImmediate(name) == TRUE

\* One closure of _bindEvents runs for the event.
CoreEventHandler(c, name) ==
    CoreChangeState([c EXCEPT !.last.invoked = @ + 1], Handler(name, c.state))

\* The host calls the listeners of the shadow root registered for the type,
\* in the order of addition, until one stops the propagation.
RECURSIVE InnerInvoke(_, _, _)
InnerInvoke(c, name, i) ==
    IF i > Len(c.listeners) THEN c
    ELSE IF c.listeners[i].name # name THEN InnerInvoke(c, name, i + 1)
    ELSE LET c1 == CoreEventHandler(c, name)
         IN  IF StopsImmediate(name) THEN c1 ELSE InnerInvoke(c1, name, i + 1)

\* An event of type name is dispatched on an element of the rendered tree
\* and captured at the shadow root.
CoreDispatchLocal(c, name) ==
    InnerInvoke([c EXCEPT !.last = [name |-> name, invoked |-> 0, commits |-> 0,
                                    from |-> c.state]],
                name, 1)

\* _globalEventHandler of core.ts
CoreDispatchGlobal(c, name) ==
    IF name \in c.globalSubs
    THEN CoreChangeState([c EXCEPT !.last = NoDelivery], Handler(name, c.state))
    ELSE c

\* The setTimeout callback of core.ts: _redraw is not guarded by a connected
\* flag in this revision.
CoreTimerCallback(c) ==
    [c EXCEPT !.tasks = @ - 1, !.root = Render(c.state),
              !.deferredRedraw = FALSE]

SetCore(c) ==
    /\ other' = c
    /\ Assign(World)
    /\ builder' = builder

BoundedCore(c) ==
    /\ c.state <= MaxState
    /\ c.ncalls <= MaxCalls
    /\ c.mounts <= MaxMounts

CoreConnect ==
    /\ ~other.mounted
    /\ BoundedCore(CoreConnected(other))
    /\ SetCore(CoreConnected(other))

CoreDisconnect ==
    /\ other.mounted
    /\ SetCore(CoreDisconnected(other))

\* The rendered tree is in the shadow root only while the element is
\* connected.
CoreLocalEvent(name) ==
    /\ other.mounted
    /\ BoundedCore(CoreDispatchLocal(other, name))
    /\ SetCore(CoreDispatchLocal(other, name))

CoreGlobalEvent(name) ==
    /\ BoundedCore(CoreDispatchGlobal(other, name))
    /\ SetCore(CoreDispatchGlobal(other, name))

CoreRunTask ==
    /\ other.tasks > 0
    /\ SetCore(CoreTimerCallback(other))

InitCore ==
    /\ Start(Constructed(CounterArgs))
    /\ other = CoreConstructed
    /\ builder = NoBuilder

NextCore ==
    \/ CoreConnect
    \/ CoreDisconnect
    \/ \E name \in CoreEvents : CoreLocalEvent(name)
    \/ \E name \in CoreEvents : CoreGlobalEvent(name)
    \/ CoreRunTask

SpecCore == InitCore /\ [][NextCore]_vars

\* ------------------------------------------------------------- properties
Last(s) == s[Len(s)]
IsCommit(c) == c.old # c.new
\* the state-changing commits, in order
Commits == SelectSeq(calls, IsCommit)
CallEntry(os, ns) == [old |-> os, new |-> ns, epoch |-> epoch, inTask |-> InTask(stack)]

\* C1: a commit whose argument is reference-identical to the current state
\* changes nothing (state, pendingRedraw, enqueued tasks, emission: only the
\* call itself is recorded); so commit(s) followed by commit(s) enqueues at
\* most one task and evaluates emission exactly once when s is a new state.
C1_IdentityCommitIsNoop ==
    /\ ChangeState(World, state) = [World EXCEPT !.calls = Append(@, CallEntry(state, state))]
    /\ \A s \in 0..MaxState :
          LET w1 == ChangeState(World, s)
              w2 == ChangeState(w1, s)
          IN  /\ w2 = [w1 EXCEPT !.calls = Append(@,
                          [old |-> s, new |-> s, epoch |-> w1.epoch,
                           inTask |-> InTask(w1.stack)])]
              /\ w2.tasks <= 1
              /\ Len(w2.passes) = Len(passes) + (IF s = state THEN 0 ELSE 1)
    /\ Len(passes) = Len(Commits)

\* C1 witness: an identity commit was made while a redraw was pending.
C1_Witness ==
    /\ Len(calls) >= 2
    /\ Last(calls).old = Last(calls).new
    /\ IsCommit(calls[Len(calls) - 1])
    /\ tasks = 1

\* C2: the state-changing commits s1..sn of task-queue turns without a
\* deferred task running in between have exactly one deferred task enqueued
\* for them, the task renders the last of them, and every commit has its
\* own emission pass, the i-th against (s(i-1), s(i)).
C2_Coalescing ==
    /\ ~InTask(stack) => (tasks = IF Batch(World) = {} THEN 0 ELSE 1)
    /\ lastTask.outcome # "none" => lastTask.batchLast # -1
    /\ lastTask.outcome \in {"equal", "replace", "patch"}
          => lastTask.rendered = lastTask.batchLast
    /\ Len(passes) = Len(Commits)
    /\ \A n \in 1..Len(Commits) :
          /\ n <= Len(passes) => /\ passes[n].old = Commits[n].old
                                 /\ passes[n].new = Commits[n].new
          /\ Commits[n].old = IF n = 1 THEN InitialState ELSE Commits[n - 1].new

\* C2 witness: three commits of one turn were rendered by one task.
C2_Witness ==
    /\ lastTask.outcome \in {"replace", "patch"}
    /\ epoch = 1
    /\ Len(Commits) = 3
    /\ \A n \in 1..3 : ~Commits[n].inTask /\ Commits[n].epoch = 0
    /\ lastTask.rendered = Commits[3].new
    /\ stack = <<>>

\* C3: a state-changing commit issued from inside the redraw path (the
\* viewupdated hook called by _redraw) leaves a pending deferred task that
\* will render the state it committed.
C3_HookCommitSchedulesRedraw ==
    \A n \in 1..Len(calls) :
        (IsCommit(calls[n]) /\ calls[n].inTask /\ calls[n].epoch = epoch)
            => tasks = 1

\* C4: once every enqueued task has run and no callback is executing, the
\* mounted tree of a connected instance is render(current state).
C4_LastStateRendered ==
    (stack = <<>> /\ tasks = 0 /\ connected) => root = Render(state)

\* C5: at most one deferred redraw task is enqueued and not yet executed.
C5_AtMostOnePending ==
    /\ tasks <= 1
    /\ tasks = 1 => deferredRedraw

\* C5 witness: a commit nested in the emission loop of another commit, made
\* while the redraw of the outer commit is pending.
C5_Witness ==
    /\ Len(stack) >= 2
    /\ stack[1].k = "emit"
    /\ stack[2].k = "emit"
    /\ Len(Commits) >= 2
    /\ tasks = 1


\* C6 (as claimed): a deferred task that fires never skips computing
\* render(state) and reconciling.
C6_ScheduledRedrawAlwaysRenders == lastTask.outcome # "skipped"

\* C6 (amended): an enqueued task leaves the queue only by firing (no
\* cancellation, also not by the disconnect hook); when it fires it computes
\* render(state) and reconciles if the instance is connected, and does
\* neither if the instance is not connected.
C6_TaskFiresAndRendersIffConnected ==
    [][ /\ tasks' < tasks => (epoch' = epoch + 1 /\ tasks' = tasks - 1)
        /\ epoch' # epoch =>
             /\ tasks > 0 /\ epoch' = epoch + 1
             /\ connected =>
                  /\ lastTask'.outcome \in {"equal", "replace", "patch"}
                  /\ lastTask'.rendered = state
                  /\ root' = Render(state)
             /\ ~connected =>
                  /\ lastTask'.outcome = "skipped"
                  /\ lastTask'.rendered = -1
                  /\ root' = root /\ state' = state
                  /\ ~deferredRedraw' ]_vars

\* C6 witness: a task fired on an instance disconnected after the commit.
C6_Witness ==
    /\ lastTask.outcome = "skipped"
    /\ ~connected
    /\ tasks = 0
    /\ Len(Commits) >= 1

\* C7: every predicate and emitter of an emission pass is evaluated with
\* the (old, new) pair of the commit the pass belongs to.
C7_PassUsesSnapshot ==
    \A n \in 1..Len(trace) :
        /\ trace[n].old = passes[trace[n].pass].old
        /\ trace[n].seen = passes[trace[n].pass].new

\* the evaluations and dispatches of pass p, in the order they happened
PassEntries(p) == SelectSeq(trace, LAMBDA e : e.pass = p)
PassEmits(p) == SelectSeq(trace, LAMBDA e : e.pass = p /\ e.kind = "emit")
Before(a, b) == a.rec < b.rec \/ (a.rec = b.rec /\ a.em < b.em)
\* the record the loop of pass p will evaluate next, and the emitter
PassAt(p) ==
    IF \E d \in 1..Len(stack) : stack[d].k = "emit" /\ stack[d].pass = p
    THEN LET d == CHOOSE x \in 1..Len(stack) : stack[x].k = "emit" /\ stack[x].pass = p
         IN  [i |-> stack[d].i, j |-> stack[d].j]
    ELSE [i |-> Len(args.emit) + 1, j |-> 1]
Has(p, r, j) == \E n \in 1..Len(trace) :
                   trace[n].pass = p /\ trace[n].rec = r /\ trace[n].em = j
Entry(p, r, j) == trace[CHOOSE n \in 1..Len(trace) :
                   trace[n].pass = p /\ trace[n].rec = r /\ trace[n].em = j]
\* record r of pass p has been gone through as far as the loop has come
RecordDone(p, r, upto) ==
    /\ Has(p, r, 0)
    /\ \A j \in 1..Len(args.emit[r].emit) :
          Has(p, r, j) <=> (Entry(p, r, 0).result /\ j <= upto)
    /\ \A j \in 1..Len(args.emit[r].emit) :
          Has(p, r, j) => /\ Entry(p, r, j).type = args.emit[r].emit[j]
                          /\ Entry(p, r, j).kind = "emit"

\* C8: within one commit the records are evaluated in declaration order,
\* every record whose predicate returned true dispatches all its events (a
\* true predicate does not suppress later records), and the events are
\* dispatched in record order and, within a record, in list order.
C8_DeclarationOrder ==
    \A p \in 1..Len(passes) :
        LET T  == PassEntries(p)
            at == PassAt(p)
        IN  /\ \A a, b \in 1..Len(T) : a < b => Before(T[a], T[b])
            /\ \A r \in 1..Len(args.emit) :
                  /\ r < at.i => RecordDone(p, r, Len(args.emit[r].emit))
                  /\ (r = at.i /\ at.j > 1) => RecordDone(p, r, at.j - 1)
                  /\ (r > at.i \/ (r = at.i /\ at.j = 1)) =>
                        \A j \in 0..Len(args.emit[r].emit) : ~Has(p, r, j)

\* C8 witness: a finished pass in which two records fired, the first with
\* both emitters of its list, and the record between them did not.
C8_Witness ==
    /\ args.name = "full"
    /\ \E p \in 1..Len(passes) :
          /\ PassAt(p).i = Len(args.emit) + 1
          /\ Has(p, 1, 2) /\ ~Has(p, 2, 1) /\ Has(p, 3, 1)

\* the state committed last among the first n calls of _changeState
LatestCommitted(n) ==
    LET S == {m \in 1..n : IsCommit(calls[m])}
    IN  IF S = {} THEN InitialState ELSE calls[SetMax(S)].new

\* C9: the emission pass of a commit runs inside the commit, after the
\* state cell is replaced: it is given the replaced state as old, the
\* states its predicates and emitters receive are the latest committed one
\* at the moment they run, and no deferred redraw executes between the
\* commit and any evaluation of its pass, whose redraw is still pending.
C9_EmissionInsideCommit ==
    /\ Len(passes) = Len(Commits)
    /\ \A p \in 1..Len(passes) :
          p <= Len(Commits) =>
             /\ passes[p].old = Commits[p].old
             /\ passes[p].new = Commits[p].new
             /\ passes[p].epoch = Commits[p].epoch
             /\ Len(PassEntries(p)) > 0 =>
                   PassEntries(p)[1].seen = passes[p].new
    /\ \A n \in 1..Len(trace) :
          /\ trace[n].old = passes[trace[n].pass].old
          /\ trace[n].epoch = passes[trace[n].pass].epoch
          /\ trace[n].seen = LatestCommitted(trace[n].ncalls)
    /\ InListener(stack) => deferredRedraw /\ (tasks = 1 \/ InTask(stack))

\* C9 witness: a listener is running for an event of a commit whose redraw
\* is enqueued and has not run.
C9_Witness ==
    /\ InListener(stack)
    /\ ~InTask(stack)
    /\ tasks = 1
    /\ Len(trace) > 0
    /\ Last(trace).kind = "emit"
    /\ Last(trace).seen = state
    /\ root # Render(state)

\* C10: in the instance of the scenario (initialState 0, increment, one
\* record when n >= 3) the event is dispatched for a commit exactly when the
\* predicate holds on the commit's (old, new) pair, built from the commit's
\* new state; three increments commit 1, 2, 3 and dispatch it once, on the
\* third commit, from state 3.  In any instance the same holds of every pass
\* during which the state cell was not replaced.
C10_EmitIffPredicate ==
    /\ args.name = "counter" =>
          /\ \A p \in 1..Len(passes) :
                LET E == PassEmits(p)
                IN  /\ Len(E) = IF When("geq3", passes[p].old, passes[p].new) THEN 1 ELSE 0
                    /\ \A n \in 1..Len(E) :
                          E[n].type = "reachedThree" /\ E[n].seen = passes[p].new
          /\ \A n \in 1..Len(Commits) : Commits[n].new = n /\ Commits[n].old = n - 1
          /\ Len(passes) >= 3 =>
                LET E == SelectSeq(trace, LAMBDA e : e.kind = "emit" /\ e.pass <= 3)
                IN  /\ Len(E) = 1
                    /\ E[1].pass = 3 /\ E[1].seen = 3 /\ E[1].type = "reachedThree"
    /\ \A p \in 1..Len(passes) :
          (PassAt(p).i = Len(args.emit) + 1
             /\ \A n \in 1..Len(trace) : trace[n].pass = p => trace[n].seen = passes[p].new)
          => \A r \in 1..Len(args.emit) :
                /\ Has(p, r, 1) <=> When(args.emit[r].when, passes[p].old, passes[p].new)
                /\ \A j \in 1..Len(args.emit[r].emit) :
                      Has(p, r, j) => Entry(p, r, j).seen = passes[p].new

\* C10 witness: the scenario has run: three increments, one event.
C10_Witness ==
    /\ args.name = "counter"
    /\ Len(Commits) = 3
    /\ state = 3
    /\ stack = <<>>
    /\ Len(PassEmits(3)) = 1
    /\ Len(PassEmits(1)) = 0 /\ Len(PassEmits(2)) = 0

\* C11: every event produced by an emission record is dispatched once, on
\* one target chosen by the record's channel: window when the channel is
\* "global", the instance itself when the channel is "local" or absent.
C11_OneTargetByChannel ==
    \A n \in 1..Len(trace) :
       trace[n].kind = "emit" =>
          LET r == args.emit[trace[n].rec]
          IN  /\ trace[n].target \in {"window", "this"}
              /\ trace[n].target = "window" <=> r.channel = "global"
              /\ trace[n].target = "this" <=> r.channel \in {"local", "absent"}
              /\ \A m \in 1..Len(trace) :
                    ( /\ trace[m].kind = "emit"
                      /\ trace[m].pass = trace[n].pass
                      /\ trace[m].rec = trace[n].rec
                      /\ trace[m].em = trace[n].em ) => m = n

\* C11 witness: events of a local, of a global and of a channel-less record
\* have been dispatched.
C11_Witness ==
    /\ \E n \in 1..Len(trace) :
          /\ trace[n].kind = "emit" /\ trace[n].target = "window"
          /\ args.emit[trace[n].rec].channel = "global"
    /\ \E n \in 1..Len(trace) :
          /\ trace[n].kind = "emit" /\ trace[n].target = "this"
          /\ args.emit[trace[n].rec].channel = "local"
    /\ \E n \in 1..Len(trace) :
          /\ trace[n].kind = "emit" /\ trace[n].target = "this"
          /\ args.emit[trace[n].rec].channel = "absent"

\* connectedCallback is on the call stack.
InConnect(s) == \E d \in 1..Len(s) : s[d].k = "connect"

\* C12: whenever neither lifecycle hook is executing, the listeners of the
\* global table are attached on window if and only if the instance is
\* connected: all of them while connected, none otherwise, also after
\* repeated connects and disconnects; a name has one listener at most (a
\* listener list holds a (type, callback, capture) triple once and the
\* callback is the one function bound in the constructor).
C12_GlobalSubscribedIffConnected ==
    ~InConnect(stack) =>
       /\ globalSubs = IF connected THEN GlobalNames(args) ELSE {}
       /\ \A name \in GlobalNames(args) : name \in globalSubs <=> connected

\* C12 witness: a second connect has completed on an instance with a global
\* handler.
C12_Witness ==
    /\ connected
    /\ ~InConnect(stack)
    /\ globalSubs = {"popstate"}
    /\ Cardinality({n \in 1..Len(invoked) : invoked[n].from = "connect"}) >= 2

\* C13: channel isolation.  While the instance is not connected (from the
\* disconnect hook to the next connect) an event dispatched on window and an
\* event dispatched at the emptied local boundary change nothing of the
\* instance, whatever their type, and no handler is ever invoked on an
\* instance that is not connected.
C13_ChannelIsolation ==
    /\ ~connected =>
          \A name \in EventNames :
             /\ DispatchGlobal(World, name) = World
             /\ DispatchLocal(World, name) = World
    /\ \A n \in 1..Len(invoked) :
          invoked[n].fn = "handler" => invoked[n].connected

\* C13 witness: an instance with handlers of both channels has reacted to a
\* local and to a global event and has then been disconnected.
C13_Witness ==
    /\ ~connected
    /\ stack = <<>>
    /\ LocalNames(args) # {} /\ GlobalNames(args) # {}
    /\ \E n \in 1..Len(invoked) : invoked[n].fn = "handler" /\ invoked[n].from = "local"
    /\ \E n \in 1..Len(invoked) : invoked[n].fn = "handler" /\ invoked[n].from = "global"

\* The declared form of the record of an event name.
Declared(name) == args.events[name]

\* C14 as claimed: a plain-function handler is placed in the local table
\* unless its name is one of the reserved names hashchange and popstate,
\* which place it in the global table; an explicit channel decides otherwise.
C14_ReservedNamesDefaultGlobal ==
    \A name \in DOMAIN args.events :
       /\ name \in LocalNames(args) <=>
             \/ Declared(name) = "local"
             \/ Declared(name) = "plain" /\ name \notin GLOBAL_EVENTS
       /\ name \in GlobalNames(args) <=>
             \/ Declared(name) = "global"
             \/ Declared(name) = "plain" /\ name \in GLOBAL_EVENTS

\* C14 amended: the latest revision has no reserved names.  A plain-function
\* handler is placed in the local table whatever its event name, a record
\* with an explicit channel in the table of that channel; the listeners
\* attached by a connect and the channel on which a handler is invoked
\* follow the tables.
C14_PlainFunctionIsLocal ==
    /\ \A name \in DOMAIN args.events :
          /\ name \in LocalNames(args) <=> Declared(name) \in {"plain", "local"}
          /\ name \in GlobalNames(args) <=> Declared(name) = "global"
    /\ (connected /\ ~InConnect(stack)) =>
          /\ localSubs = {name \in DOMAIN args.events : Declared(name) \in {"plain", "local"}}
          /\ globalSubs = {name \in DOMAIN args.events : Declared(name) = "global"}
    /\ \A n \in 1..Len(invoked) :
          invoked[n].fn = "handler" =>
             /\ invoked[n].name \in DOMAIN args.events
             /\ invoked[n].from = "local" <=> Declared(invoked[n].name) \in {"plain", "local"}
             /\ invoked[n].from = "global" <=> Declared(invoked[n].name) = "global"

\* C14 witness: the plain-function handler declared under hashchange has
\* been invoked by the listener of the local boundary, and a handler
\* declared global under an ordinary name by the listener on window.
C14_Witness ==
    /\ "hashchange" \in DOMAIN args.events
    /\ Declared("hashchange") = "plain"
    /\ \E n \in 1..Len(invoked) :
          /\ invoked[n].fn = "handler" /\ invoked[n].name = "hashchange"
          /\ invoked[n].from = "local"
    /\ \E n \in 1..Len(invoked) :
          /\ invoked[n].fn = "handler" /\ invoked[n].name = "focus"
          /\ invoked[n].from = "global"

\* The step is an execution of the timer callback, which calls _redraw.
TaskStep == epoch' = epoch + 1

\* C15: structural skip.  When the deferred redraw runs on a connected
\* instance and render(state) is structurally equal to the mounted tree, the
\* Reconciler calls neither replaceWith nor the patch algorithm, the tree
\* and the root reference are unchanged, and viewupdated is not invoked (no
\* commit follows).
C15_StructuralSkip ==
    [][ (TaskStep /\ connected /\ root = Render(state)) =>
           /\ lastTask'.outcome = "equal"
           /\ root' = root
           /\ rootId' = rootId
           /\ invoked' = invoked
           /\ calls' = calls
           /\ state' = state ]_vars

\* C15 witness: with the hook configured, two commits led from state 0 to
\* state 2, which renders the mounted tree again, and the task skipped.
C15_Witness ==
    /\ args.viewupdated
    /\ lastTask.outcome = "equal"
    /\ lastTask.rendered = 2
    /\ Len(Commits) = 2
    /\ stack = <<>>

\* C16: kind-change replacement.  When a redraw runs on a connected instance
\* and the candidate's nodeName differs from the mounted root's, the
\* candidate, a fresh node, becomes the root by replaceWith and the patch
\* algorithm is not invoked; when the kinds match, the trees differ and
\* redrawMode is "update", the patch algorithm is invoked on the mounted
\* root, which stays the root.
C16_KindChangeReplaces ==
    [][ (TaskStep /\ connected) =>
           LET candidate == Render(state)
           IN  /\ root.nodeName # candidate.nodeName =>
                     /\ lastTask'.outcome = "replace"
                     /\ rootId' # rootId
                     /\ root' = candidate
               /\ ( /\ root.nodeName = candidate.nodeName
                    /\ root # candidate
                    /\ args.redrawMode = "update" ) =>
                     /\ lastTask'.outcome = "patch"
                     /\ rootId' = rootId
                     /\ root' = candidate ]_vars

\* C16 witness: in "update" mode a first task patched the tree of state 0
\* into that of state 1 and a second task replaced it by the tree of
\* state 3, of another kind.
C16_Witness ==
    /\ args.redrawMode = "update"
    /\ ~args.viewupdated
    /\ epoch = 2
    /\ Len(Commits) = 3
    /\ Commits[1].epoch = 0 /\ Commits[2].epoch = 1 /\ Commits[3].epoch = 1
    /\ Commits[1].new = 1 /\ Commits[3].new = 3
    /\ lastTask.outcome = "replace"
    /\ root.nodeName = "DIV"

\* The invocations of viewupdated made by the step.
NewHookCalls ==
    SelectSeq(SubSeq(invoked', Len(invoked) + 1, Len(invoked')),
              LAMBDA e : e.fn = "viewupdated")

\* connectedCallback reaches this._connected = true in the step.
ConnectCompletes == connected' /\ ~connected

\* The invocation e of viewupdated got the state and the mounted root of
\* the moment, and its result is the argument of the _changeState call that
\* follows it.
HookFeedsCommit(e) ==
    /\ e.root = root' /\ e.rootId = rootId'
    /\ e.root = Render(e.state)
    /\ e.mounted
    /\ e.ncalls + 1 <= Len(calls')
    /\ calls'[e.ncalls + 1].old = e.state
    /\ calls'[e.ncalls + 1].new = Viewupdated(e.state, e.root)

\* C17: with the hook configured, viewupdated runs exactly once in a redraw
\* that changed the mounted tree (replace or patch) and exactly once at the
\* end of each connect, with the current state and the mounted root, and
\* its result is committed; it does not run in a redraw that was skipped
\* (equal tree, or instance not connected), nor anywhere else.
C17_HookOncePerRedrawAndConnect ==
    [][ /\ TaskStep =>
              IF args.viewupdated /\ lastTask'.outcome \in {"replace", "patch"}
              THEN /\ Len(NewHookCalls) = 1
                   /\ NewHookCalls[1].from = "redraw"
                   /\ NewHookCalls[1].state = state
                   /\ HookFeedsCommit(NewHookCalls[1])
              ELSE Len(NewHookCalls) = 0
        /\ ConnectCompletes =>
              IF args.viewupdated
              THEN /\ Len(NewHookCalls) = 1
                   /\ NewHookCalls[1].from = "connect"
                   /\ NewHookCalls[1].connected
                   /\ HookFeedsCommit(NewHookCalls[1])
              ELSE Len(NewHookCalls) = 0
        /\ ~(TaskStep \/ ConnectCompletes) => Len(NewHookCalls) = 0 ]_vars

\* C17 witness: the hook ran at the end of the connect and once more in the
\* one redraw that changed the tree, and its second result was committed.
C17_Witness ==
    /\ args.viewupdated
    /\ epoch = 1
    /\ lastTask.outcome = "patch"
    /\ Len(SelectSeq(invoked, LAMBDA e : e.fn = "viewupdated" /\ e.from = "connect")) = 1
    /\ Len(SelectSeq(invoked, LAMBDA e : e.fn = "viewupdated" /\ e.from = "redraw")) = 1
    /\ Last(invoked).fn = "viewupdated"
    /\ Last(calls).old = 1 /\ Last(calls).new = 0

\* C18: a commit issued by the viewupdated hook does not re-enter the
\* Reconciler: an execution of _redraw never starts while another one is on
\* the call stack (the timer callback is the bottom frame of its stack and
\* there is one at most), and the commit of a hook called by _redraw is
\* made inside that same execution of the timer callback.  The same holds
\* of the timer callback run from any state in which a task is enqueued.
C18_NoNestedRedraw ==
    /\ (stack = <<>> /\ tasks > 0) =>
          LET w == TimerCallback(World)
          IN  /\ w.lastTask.depth = 1
              /\ Depth(w.stack) <= 1
              /\ w.epoch = epoch + 1
    /\ lastTask.depth <= 1
    /\ Depth(stack) <= 1
    /\ \A d \in 1..Len(stack) : stack[d].k = "task" => d = 1
    /\ \A n \in 1..Len(invoked) :
          (invoked[n].fn = "viewupdated" /\ invoked[n].from = "redraw") =>
             /\ invoked[n].ncalls + 1 <= Len(calls)
             /\ calls[invoked[n].ncalls + 1].inTask
             /\ calls[invoked[n].ncalls + 1].epoch = invoked[n].epoch

\* C18 witness: the hook called by _redraw committed another state and a
\* listener of an event of that commit runs inside the timer callback.
C18_Witness ==
    /\ InTask(stack)
    /\ InListener(stack)
    /\ lastTask.depth = 1
    /\ Len(invoked) > 0
    /\ Last(invoked).fn = "viewupdated" /\ Last(invoked).from = "redraw"
    /\ IsCommit(Last(calls))
    /\ Last(calls).inTask

\* The invocation e is the synthetic trigger call of connectedCallback.
IsConnectTrigger(e) == e.fn = "domchange" /\ e.from = "connect"

C20_WatcherDisarmed ==
    /\ (~connected /\ ~InConnect(stack)) => ~observing /\ ~queued
    /\ queued => observing
    /\ \A n \in 1..Len(invoked) :
          invoked[n].fn = "domchange" =>
             /\ invoked[n].from \in {"observer", "connect"}
             /\ invoked[n].from = "observer" =>
                   invoked[n].connected /\ invoked[n].observing
    /\ dropped => ~connected /\ ~queued

\* C20 witness: mutation records were queued when the disconnect hook ran;
\* the instance is disconnected and nothing is left to deliver.
C20_Witness ==
    /\ args.domchange
    /\ dropped
    /\ ~connected
    /\ stack = <<>>
    /\ ~queued

\* C21: Form Sync value invariant.  For a FormComponent, after construction
\* and whenever no commit has started since the last commit returned
\* (nested commits of listeners, commits of viewupdated and of the watcher
\* included), the submission value held by the host is formValue of the
\* current state; every commit ends by pushing formValue of the state of
\* that moment.
C21_FormValueFollowsState ==
    args.form =>
       /\ stack = << >> => formValue = FormValue(state)
       /\ Len(calls) = 0 => formValue = FormValue(InitialState)
       /\ (Len(formLog) > 0 /\ Last(formLog).ncalls = Len(calls)) =>
             /\ formValue = FormValue(state)
             /\ Last(formLog).state = state
       /\ \A n \in 1..Len(formLog) :
             /\ formLog[n].value = FormValue(formLog[n].state)
             /\ formLog[n].state = LatestCommitted(formLog[n].ncalls)

\* C21 witness: a commit made by a listener inside another commit has
\* returned, then the outer one, and the host holds the value of the state
\* they left.
C21_Witness ==
    /\ args.form /\ ~args.viewupdated /\ ~args.domchange
    /\ stack = << >>
    /\ state # InitialState
    /\ formValue = FormValue(state)
    /\ \E n \in 1..Len(formLog) : formLog[n].depth >= 1 /\ ~formLog[n].identity

\* C22: for a FormComponent, validate is invoked and validity is pushed to
\* the host only while connected is true: a commit made while connected is
\* false (the watcher's synthetic transition at the start of a connect hook
\* is one) calls neither, and the host's flags stay as they were.
C22_ValidateOnlyWhileConnected ==
    args.form =>
       /\ \A n \in 1..Len(formLog) :
             /\ formLog[n].validated => formLog[n].connected
             /\ formLog[n].pushed => formLog[n].validated
             /\ ~formLog[n].connected =>
                   /\ ~formLog[n].validated
                   /\ ~formLog[n].pushed
                   /\ formLog[n].flags = {}
       /\ (\A n \in 1..Len(formLog) : ~formLog[n].connected) => validity = {}

\* C22 witness: the synthetic transition of a reconnect committed another
\* state while connected was false and was not validated; commits made
\* while connected were.
C22_Witness ==
    /\ args.form /\ args.domchange
    /\ \E n \in 1..Len(formLog) :
          /\ ~formLog[n].connected /\ ~formLog[n].identity
          /\ ~formLog[n].validated
    /\ \E n \in 1..Len(formLog) : formLog[n].connected /\ formLog[n].validated

\* The flags the host holds after the first n ends of _changeState.
HostAfter(n) ==
    LET P == {m \in 1..n : formLog[m].pushed}
    IN  IF P = {} THEN {} ELSE formLog[SetMax(P)].flags

\* C23: validity diffing.  On a commit of a connected FormComponent the
\* validity push is made if and only if one of the ten flags returned by
\* validate(state), a missing flag counting as false, differs from the
\* host's current flag; the host then holds the pushed flags.  Two
\* successive transitions validating to {valueMissing} push once.
C23_ValidityDiffing ==
    args.form =>
       /\ \A n \in 1..Len(formLog) :
             /\ formLog[n].host = HostAfter(n - 1)
             /\ formLog[n].validated =>
                   /\ formLog[n].flags = Validate(formLog[n].state)
                   /\ formLog[n].pushed <=>
                         \E f \in Flags :
                            (f \in formLog[n].flags) # (f \in formLog[n].host)
       /\ validity = HostAfter(Len(formLog))

\* C23 witness: two transitions of a connected FormComponent both validated
\* to {valueMissing}; the first pushed, the second did not.
C23_Witness ==
    /\ args.form
    /\ \E n, m \in 1..Len(formLog) :
          /\ n < m
          /\ ~formLog[n].identity /\ ~formLog[m].identity
          /\ formLog[n].validated /\ formLog[m].validated
          /\ formLog[n].flags = {"valueMissing"}
          /\ formLog[m].flags = {"valueMissing"}
          /\ formLog[n].pushed /\ ~formLog[m].pushed

\* C24: a commit of a reference-identical state on a FormComponent is a
\* full no-op: it calls neither formValue nor setFormValue, neither
\* validate nor setValidity.  An entry of formLog is one call of formValue
\* and one of setFormValue and tells whether validate and setValidity were
\* called, so no entry is made by an identity commit.
C24_IdentityCommitSkipsFormSync ==
    args.form => \A n \in 1..Len(formLog) : ~formLog[n].identity

\* The declared projections that have a getter.
Readable == {name \in DOMAIN args.props : args.props[name] \in {"get", "getset"}}

\* C25: Property Projection read.  At every moment, for every declared
\* projection with a getter, reading the field returns get(current state),
\* computed at the read (after a commit and before its deferred redraw it is
\* the value of the committed state), and the read changes nothing of the
\* instance: not the state, not the pending redraw.
C25_ReadIsLive ==
    \A name \in Readable :
       /\ ReadProp(World, name).value = PropGet(name, state)
       /\ ReadProp(World, name).world = World

\* C25 witness: a commit has replaced the state, its deferred redraw has not
\* run, and the projected fields read the committed state.
C25_Witness ==
    /\ Readable # {}
    /\ connected /\ stack = << >>
    /\ tasks = 1 /\ deferredRedraw
    /\ state = 1
    /\ root # Render(state)
    /\ ReadProp(World, "value").value = 1
    /\ ReadProp(World, "parity").value = 1

\* The declared projections that have a write path (set and predicate).
Writable == {name \in DOMAIN args.props : args.props[name] \in {"set", "getset"}}

\* C26: Property Projection write.  For every declared projection with a
\* write path, assigning to the field a value v that satisfies the guard
\* commits set(current state, v): after the assignment the state is
\* set(old state, v), and a redraw is pending if the state changed while the
\* instance is connected.
C26_WriteCommits ==
    \A name \in Writable : \A v \in PropValues :
       PropGuard(name, v) =>
          LET w == WriteProp(World, name, v)
          IN /\ w.state = PropSet(name, state, v)
             /\ (w.state # state /\ connected) => w.deferredRedraw

\* The global event names an instance is subscribed to on window.
Subscribed(t, who) == {n \in EventNames : <<n, ListenerOf(who)>> \in t.window}

\* C27: instance isolation over window.  Two instances A and B declare the
\* same global event name.  Each instance is subscribed on window to its own
\* global names exactly while it is connected; a connect or disconnect hook of
\* one instance leaves the other instance, and its subscriptions, unchanged;
\* and whenever the state of an instance changes, the new state is the result
\* of its own handler applied to its own previous state, committed by its own
\* _changeState.
C27_InstanceIsolation ==
    [][ LET t == Twin
            u == [a |-> World', b |-> other'.b, window |-> other'.window]
        IN  \A who \in Instances :
              LET me == Inst(t, who)  me2 == Inst(u, who)
                  peer == Inst(t, CHOOSE p \in Instances : p # who)
                  peer2 == Inst(u, CHOOSE p \in Instances : p # who)
              IN  /\ Subscribed(u, who)
                       = IF me2.connected THEN GlobalNames(me2.args) ELSE {}
                  /\ me2.connected # me.connected =>
                       /\ peer2 = peer
                       /\ Subscribed(u, CHOOSE p \in Instances : p # who)
                            = Subscribed(t, CHOOSE p \in Instances : p # who)
                  /\ me2.state # me.state =>
                       /\ me2.state = Handler("hashchange", me.state)
                       /\ Len(me2.calls) = Len(me.calls) + 1
                       /\ Last(me2.calls).old = me.state
                       /\ Last(me2.calls).new = me2.state
                  /\ (me2.state # me.state /\ peer2.state # peer.state) =>
                       /\ <<"hashchange", ListenerOf("A")>> \in t.window
                       /\ <<"hashchange", ListenerOf("B")>> \in t.window
                       /\ me.connected /\ peer.connected ]_vars

\* C27 witness: both instances were connected, A was disconnected and is not
\* subscribed any more, B still is, and B has committed the results of its
\* own handler on window events that A, at another state, handled or missed.
C27_Witness ==
    /\ ~connected /\ other.b.connected
    /\ Subscribed(Twin, "A") = {}
    /\ Subscribed(Twin, "B") = {"hashchange"}
    /\ state = 2 /\ other.b.state = 1
    /\ \E n \in 1..Len(invoked) : invoked[n].from = "global"
    /\ \E n \in 1..Len(other.b.invoked) : other.b.invoked[n].from = "global"

\* C28: the required combinator.  Given a value that is an Error, required
\* returns that same Error value, does not invoke the callback and builds no
\* object.  Given any other value it does what update does: the callback is
\* invoked once with the object in which key is value and every other key
\* is as in obj (obj itself when key already had that value), and required
\* returns the callback's result.
C28_RequiredShortCircuits ==
    builder.fn = "required" =>
       LET out == builder.out
       IN  IF IsError(builder.value)
           THEN /\ IsError(out.ret)
                /\ out.ret = builder.value
                /\ ~out.called
                /\ ~out.built
           ELSE /\ out = Update(builder.obj, builder.key, builder.value)
                /\ out.called
                /\ Get(out.arg, builder.key) = builder.value
                /\ \A x \in Keys \ {builder.key} :
                      /\ x \in DOMAIN out.arg <=> x \in DOMAIN builder.obj
                      /\ Get(out.arg, x) = Get(builder.obj, x)
                /\ out.built <=> ~StrictEqual(Get(builder.obj, builder.key),
                                               builder.value)
                /\ ~out.built => out.arg = builder.obj
                /\ out.ret = Callback(out.arg, out.changed)

\* C28 witness: required was applied to an Error value for a key the object
\* already has, and returned that Error.
C28_Witness ==
    /\ builder.fn = "required"
    /\ builder.value = Err(2)
    /\ builder.key \in DOMAIN builder.obj
    /\ builder.out.ret = Err(2)
    /\ ~builder.out.called

\* C29: state-cell frame.  The state changes only inside _changeState: in
\* every step that changes it, the calls of _changeState made in the step
\* lead from the old state to the new one, each starting from the state the
\* previous one left.  A step without a call of _changeState leaves the state
\* as it is, and so do the disconnect hook, a connect hook without trigger
\* and hook, a redraw without a viewupdated hook, a property read, and the
\* push of the form value and validity.
C29_StateOnlyByCommit ==
    [][ /\ state' # state =>
             /\ Len(calls') > Len(calls)
             /\ calls'[Len(calls) + 1].old = state
             /\ \A n \in (Len(calls) + 2)..Len(calls') :
                   calls'[n].old = calls'[n - 1].new
             /\ Last(calls').new = state'
        /\ Len(calls') = Len(calls) => state' = state
        /\ (connected /\ ~connected') => state' = state
        /\ DisconnectedCallback(World).state = state
        /\ (~args.viewupdated /\ ~args.domchange /\ stack = << >>) =>
              ConnectedCallback(World).state = state
        /\ (~args.viewupdated /\ tasks > 0 /\ stack = << >>) =>
              TimerCallback(World).state = state
        /\ \A name \in Readable : ReadProp(World, name).world.state = state
        /\ \A identity \in BOOLEAN : FormTail(World, identity).state = state
      ]_vars

\* C29 witness: commits made while connected have replaced the state, the
\* deferred redraw has run and the form value was pushed, and the instance
\* was disconnected afterwards with the state intact.
C29_Witness ==
    /\ args.form /\ ~args.viewupdated
    /\ ~connected
    /\ state = 2
    /\ Len(Commits) = 2
    /\ epoch > 0
    /\ formValue = FormValue(2)
    /\ \E n \in 1..Len(invoked) : invoked[n].connected

\* C30: a throwing handler aborts the turn before any commit.  A step in
\* which a local or global handler throws leaves the state, pendingRedraw,
\* the enqueued deferred tasks, the calls of _changeState, the emission
\* passes and dispatches, the listeners invoked, the form value, the host's
\* validity and the pushes made unchanged; and at every reachable state the
\* dispatch of an event whose handler throws changes nothing of the instance
\* but the exception reported.
C30_ThrowAbortsTurn ==
    [][ /\ thrown' # thrown =>
             /\ thrown'.from \in {"local", "global"}
             /\ UNCHANGED << state, deferredRedraw, tasks, calls, passes, trace,
                             invoked, stack, root, rootId, epoch, lastTask,
                             formValue, validity, formLog >>
        /\ \A name \in localSubs :
              Throws(name, state) =>
                 DispatchLocal(World, name)
                    = [World EXCEPT !.thrown = [name |-> name, from |-> "local"]]
        /\ \A name \in globalSubs :
              Throws(name, state) =>
                 DispatchGlobal(World, name)
                    = [World EXCEPT !.thrown = [name |-> name, from |-> "global"]]
      ]_vars

\* C30 witness: on a connected form instance whose commit has a redraw
\* enqueued, a local handler threw; the redraw is still enqueued and nothing
\* was pushed for the throwing turn.
C30_Witness ==
    /\ args.form /\ connected
    /\ thrown = [name |-> "invalid", from |-> "local"]
    /\ state = 1 /\ tasks = 1 /\ deferredRedraw
    /\ Len(calls) = 1
    /\ Len(formLog) = 1
    /\ formValue = FormValue(1)

\* C31: the handler tables of the latest revision.  The local and the global
\* table built at construction are disjoint and together hold every declared
\* event name: a plain function and a record with channel "local" are in the
\* local table only, a record with channel "global" is in the global table
\* only.  The listeners attached are those of the tables, and a handler runs
\* only for an event of its own name arriving on its own table's channel.
C31_TablesPartitionDeclared ==
    /\ LocalNames(args) \cap GlobalNames(args) = {}
    /\ LocalNames(args) \cup GlobalNames(args) = DOMAIN args.events
    /\ \A n \in DOMAIN args.events :
          /\ args.events[n] \in {"plain", "local"} =>
                n \in LocalNames(args) /\ n \notin GlobalNames(args)
          /\ args.events[n] = "global" =>
                n \in GlobalNames(args) /\ n \notin LocalNames(args)
    /\ localSubs \subseteq LocalNames(args)
    /\ globalSubs \subseteq GlobalNames(args)
    /\ \A k \in 1..Len(invoked) :
          invoked[k].fn = "handler" =>
             /\ invoked[k].from = "local" => invoked[k].name \in LocalNames(args)
             /\ invoked[k].from = "global" => invoked[k].name \in GlobalNames(args)

\* C31 witness: an instance declaring a plain function, a local record and a
\* global record is connected, and a handler of each table has run.
C31_Witness ==
    /\ {args.events[n] : n \in DOMAIN args.events} = {"plain", "local", "global"}
    /\ connected
    /\ localSubs = LocalNames(args) /\ globalSubs = GlobalNames(args)
    /\ \E k \in 1..Len(invoked) :
          invoked[k].fn = "handler" /\ invoked[k].from = "local"
    /\ \E k \in 1..Len(invoked) :
          invoked[k].fn = "handler" /\ invoked[k].from = "global"

\* C32: in the revision of src/sources/core.ts subscriptions do not leak
\* across re-mounts.  After any number of disconnect/connect cycles, a local
\* event delivered to the shadow root invokes the declared handler exactly
\* once, with the state at delivery, and makes at most one commit: the state
\* afterwards is the handler's result.  (An event without a declared local
\* handler invokes nothing.)
C32_OneHandlerCallPerEvent ==
    /\ other.last.name \in CoreLocalNames =>
          /\ other.last.invoked = 1
          /\ other.last.commits <= 1
    /\ other.mounted =>
          \A name \in CoreLocalNames :
             LET c == CoreDispatchLocal(other, name)
             IN  /\ c.last.invoked = 1
                 /\ c.last.commits <= 1
                 /\ c.state = Handler(name, other.state)
                 /\ c.ncalls = other.ncalls + 1

\* C32 witness: the instance was connected three times, the shadow root
\* holds three closures for the event, and one increment event was handled
\* once.
C32_Witness ==
    /\ other.mounted
    /\ other.mounts = 3
    /\ Cardinality({i \in 1..Len(other.listeners) :
                       other.listeners[i].name = "increment"}) = 3
    /\ other.last = [name |-> "increment", invoked |-> 1, commits |-> 1, from |-> 0]
    /\ other.state = 1

\* C33: pendingRedraw is true only while a deferred redraw task is enqueued
\* or executing.  In every reachable state in which no callback of the
\* instance is executing, pendingRedraw implies that a task is enqueued,
\* also after a redraw in which the viewupdated hook threw.
C33_PendingImpliesEnqueued ==
    stack = << >> => (deferredRedraw => tasks > 0)

\* C34: for a FormComponent with validate configured, whenever the instance
\* is connected and no callback is executing, each of the ten validity flags
\* held by the host equals the flag of validate(current state) (a missing
\* flag is false), whatever the sequence of construct, connect, commits,
\* disconnect and reconnect.
C34_HostValidityIsCurrent ==
    (args.form /\ args.validate /\ connected /\ stack = << >>) =>
       \A f \in Flags : (f \in validity) <=> (f \in Validate(state))

IsPush(e) == e.pushed

\* The validation message held by the host: the message handed over by the
\* last setValidity( flags, message, root ), empty before the first.
HostMessage ==
    LET pushes == SelectSeq(formLog, IsPush)
    IN  IF pushes = << >> THEN "" ELSE ValidateMessage(Last(pushes).state)

\* C35: for a connected FormComponent, after every commit the validation
\* message held by the host is the message returned by validate(current
\* state), also when two successive states have the same flags and
\* different messages.
C35_HostMessageIsCurrent ==
    ( /\ args.form /\ args.validate /\ connected /\ stack = << >>
      /\ formLog # << >>
      /\ Last(formLog).validated
      /\ Last(formLog).state = state ) =>
       HostMessage = ValidateMessage(state)

\* C36: an event emitted on the local channel (dispatched on the instance
\* itself) is never delivered to the instance's own local handler table: no
\* handler of the instance is invoked by the dispatch of an emitted event,
\* so the emission makes no call of _changeState on the emitting instance,
\* in both DOM modes and also when the emitted event has the name of a
\* declared local handler.
C36_EmittedNotSelfHandled ==
    \A k \in 1..Len(invoked) : invoked[k].from # "emitted"

\* C37: the host-tree mutations made by the runtime itself (mounting the
\* root in the connect hook, replace or patch in a redraw) never cause the
\* trigger of the Mutation Watcher to be invoked: when nothing but the
\* runtime changes the host tree, the observer's callback never calls the
\* trigger.
C37_OwnMutationsNotObserved ==
    \A k \in 1..Len(invoked) : invoked[k].from # "observer"

\* C38: the host watch of an instance with domchange configured.  The
\* instance has one observer; outside its callbacks the observer is watching
\* if and only if the instance is between a connect and the following
\* disconnect (an instance without domchange never watches); and each
\* delivery of the queued records calls the trigger exactly once, with the
\* current state, and commits the trigger's result.
C38_OneWatchWhileConnected ==
    [][ /\ stack = << >> => (observing <=> (connected /\ args.domchange))
        /\ stack' = << >> => (observing' <=> (connected' /\ args.domchange))
        /\ queued => observing
        /\ (queued /\ ~queued' /\ connected') =>
              /\ Len(invoked') = Len(invoked) + 1
              /\ Last(invoked').fn = "domchange"
              /\ Last(invoked').from = "observer"
              /\ Last(invoked').state = state
              /\ Len(calls') > Len(calls)
              /\ calls'[Len(calls) + 1].old = state
              /\ calls'[Len(calls) + 1].new = DomTrigger(state, hostAttr)
      ]_vars

\* C38 witness: the instance was connected, disconnected and connected
\* again, the observer is watching, and a delivery of queued records after
\* the second connect has called the trigger.
C38_Witness ==
    /\ args.domchange /\ connected /\ observing /\ stack = << >>
    /\ Cardinality({k \in 1..Len(invoked) :
                       invoked[k].fn = "domchange" /\ invoked[k].from = "connect"}) = 2
    /\ Last(invoked).from = "observer"
    /\ Last(invoked).observing

\* What update did with the inputs of the builder: the callback was called
\* once; when obj[key] === value it received obj itself with changed =
\* false, otherwise a new object equal to obj except that key maps to value,
\* with changed = true.
UpdateOutcomeOk ==
    LET out == builder.out
        same == StrictEqual(Get(builder.obj, builder.key), builder.value)
    IN  /\ out.called
        /\ out.changed = ~same
        /\ out.built = ~same
        /\ same => out.arg = builder.obj
        /\ ~same =>
              /\ DOMAIN out.arg = DOMAIN builder.obj \cup {builder.key}
              /\ out.arg[builder.key] = builder.value
              /\ \A x \in DOMAIN builder.obj \ {builder.key} :
                    out.arg[x] = builder.obj[x]
        /\ out.ret = Callback(out.arg, out.changed)

\* C39 as stated: update preserves identity on no change, builds a new
\* object otherwise, and update(update(o, k, v), k, v) reports changed =
\* false on the second application, for every value v.
C39_UpdateIdempotent ==
    builder.fn = "update" =>
       /\ UpdateOutcomeOk
       /\ ~Update(builder.out.arg, builder.key, builder.value).changed

\* C39 amended: update preserves identity on no change and builds a new
\* object otherwise; update(update(o, k, v), k, v) reports changed = false
\* and passes on the same object for every value v that is equal to itself
\* (every value but NaN), and reports changed = true for NaN.
C39_UpdateIdempotentButNaN ==
    builder.fn = "update" =>
       LET again == Update(builder.out.arg, builder.key, builder.value)
       IN  /\ UpdateOutcomeOk
           /\ builder.value # NaN =>
                 /\ ~again.changed /\ ~again.built
                 /\ again.arg = builder.out.arg
           /\ builder.value = NaN => again.changed /\ again.built

\* C39 witness: update replaced the value of a key the object has by another
\* number and built a new object; the second application changes nothing.
C39_Witness ==
    /\ builder.fn = "update"
    /\ builder.key \in DOMAIN builder.obj
    /\ builder.obj[builder.key] = Num(0)
    /\ builder.value = Num(1)
    /\ builder.out.changed /\ builder.out.built
    /\ builder.out.arg[builder.key] = Num(1)
    /\ ~Update(builder.out.arg, builder.key, builder.value).changed

TypeOK ==
    /\ state \in 0..MaxState
    /\ tasks \in 0..MaxCalls
    /\ deferredRedraw \in BOOLEAN
    /\ connected \in BOOLEAN
    /\ rootId \in {0, 1}
    /\ observing \in BOOLEAN /\ queued \in BOOLEAN /\ dropped \in BOOLEAN
    /\ localSubs \subseteq EventNames /\ globalSubs \subseteq EventNames
    /\ Len(invoked) <= Len(calls)

=============================================================================
